---- MODULE Spec2Model ----
(***************************************************************************)
(* P_AndroidBrowserCustomTab: the Java bridge to Chrome Custom Tabs        *)
(* (ChromeCustomTabs.java), the JNI callbacks that hop to the game thread  *)
(* (ChromeCustomTabsJNI.cpp) and the UObject holding the tab state and the *)
(* active-instance registry (CPP_ABCT_Base.cpp).                           *)
(***************************************************************************)
EXTENDS Integers, Sequences, FiniteSets, TLC

VARIABLES
    \* ---- ChromeCustomTabs.java statics
    activityRef,            \* TRUE: activityRef.get() is an Activity
    serviceConnection,      \* TRUE: a CustomTabsServiceConnection exists
    customTabsClient,       \* TRUE: non-null
    customTabsSession,      \* TRUE: non-null
    messageChannelReady,
    pendingOrigin,
    lastNavigatedUrl,
    postMessageRetryCount,
    pendingRetryOrigin,
    uiQueue,                \* main looper: messages that are due, in order
    timers,                 \* main looper: postDelayed messages not yet due
    \* ---- the device and the browser (environment)
    browserPackage,         \* TRUE: getPackageNameToUse(...) != null
    browserCallback,        \* TRUE: the browser holds CALLBACK of a session
    \* ---- CPP_ABCT_Base.cpp
    alive,                  \* the UObject has not been garbage collected
    bIsCustomTabOpen,
    CurrentURL,
    LastNavigationEvent,
    LastDeepLinkAction,
    LastDeepLinkParams,
    ActiveInstance,         \* ChromeCustomTabsRegistry::ActiveInstance
    gameQueue,              \* AsyncTask(ENamedThreads::GameThread, ...) in order
    observer,               \* the last handler run: its target, the Blueprint events it broadcast, what their receiver saw
    \* ---- history
    lastRegistryOp,         \* the last call made on the registry
    returned,               \* what the last call of the host returned, where it is recorded
    request                 \* what happened since the last accepted requestPostMessageChannel

javaVars == <<activityRef, serviceConnection, customTabsClient, customTabsSession,
              messageChannelReady, pendingOrigin, lastNavigatedUrl,
              postMessageRetryCount, pendingRetryOrigin, uiQueue, timers,
              browserPackage, browserCallback>>
objVars == <<alive, bIsCustomTabOpen, CurrentURL, LastNavigationEvent,
             LastDeepLinkAction, LastDeepLinkParams, ActiveInstance, observer,
             lastRegistryOp>>
cppVars == <<objVars, returned>>
vars == <<javaVars, cppVars, gameQueue, request>>

\* ---------------------------------------------------------------- bounds
MaxPending == 2         \* messages the main looper holds (SpecChannel, SpecBridge)
MaxChannelGame == 1     \* lambdas queued for the game thread (SpecChannel)
MaxBurst == 6           \* messages the main looper holds (SpecBurst)
MaxGameQueue == 1       \* lambdas queued for the game thread (SpecNative, SpecCodec)
MaxNativePending == 1   \* messages the main looper holds (SpecNative, SpecBridge, SpecCodec)
MaxBridgeGame == 2      \* lambdas queued for the game thread (SpecBridge)
MaxHostPending == 2     \* messages the main looper holds (SpecHost)
MaxSendPending == 2     \* messages the main looper holds (SpecSend)
MaxSendGame == 1        \* lambdas queued for the game thread (SpecSend)
MaxSessionPending == 1  \* messages the main looper holds (SpecSession)
MaxSessionGame == 1     \* lambdas queued for the game thread (SpecSession)
MaxDeepLinkPending == 1 \* messages the main looper holds (SpecDeepLink)
MaxDeepLinkGame == 2    \* lambdas queued for the game thread (SpecDeepLink)
MaxParts == 3           \* parts between the '&' of a query (SpecQuery)
MaxPlatformPending == 1 \* messages the main looper holds (SpecPlatform)
MaxPlatformGame == 2    \* lambdas queued for the game thread (SpecPlatform)

\* ---------------------------------------------------------------- constants
MAX_POSTMESSAGE_RETRIES == 5
RETRY_DELAY_MS == 1000
NAV_FINISHED_DELAY_MS == 500

NAVIGATION_STARTED == 1
NAVIGATION_FINISHED == 2
NAVIGATION_FAILED == 3
NAVIGATION_ABORTED == 4
TAB_SHOWN == 5
TAB_HIDDEN == 6
RESULT_SUCCESS == 0

Null == "null"
OriginA == "https://a"
OriginB == "https://b"
Origins == {OriginA, OriginB}
Instances == {"i1", "i2"}

\* ---------------------------------------------------------------- history of calls
\* The record of a call that returned value; a specification that starts
\* with the record switched off keeps none. given is the query of the deep
\* link the platform delivers in this behaviour; no call changes it.
Returns(op, value) ==
    IF returned.on
    THEN [on |-> TRUE, op |-> op, value |-> value, given |-> returned.given]
    ELSE returned

\* ---------------------------------------------------------------- Java: service binding
\* bindCustomTabs(context): the connection object is created once, and only
\* when a supporting browser package exists; the binding completes later.
bindCustomTabs(conn) ==
    IF conn THEN conn
    ELSE IF ~browserPackage THEN FALSE
    ELSE TRUE

\* ensureSession(activity), from the given statics; newOk: newSession(CALLBACK)
\* returned a session (it may return null).
ensureSession(conn, client, session, newOk) ==
    IF session
    THEN [serviceConnection |-> conn, customTabsSession |-> session, created |-> FALSE]
    ELSE [serviceConnection |-> bindCustomTabs(conn),
          customTabsSession |-> IF client THEN newOk ELSE FALSE,
          created |-> client /\ newOk]

\* setActivity(activity)
SetActivity(activity) ==
    /\ activityRef' = activity
    /\ serviceConnection' = IF activity THEN bindCustomTabs(serviceConnection)
                            ELSE serviceConnection
    /\ UNCHANGED <<customTabsClient, customTabsSession, messageChannelReady,
                   pendingOrigin, lastNavigatedUrl, postMessageRetryCount,
                   pendingRetryOrigin, uiQueue, timers, browserPackage,
                   browserCallback>>
    /\ UNCHANGED <<cppVars, gameQueue, request>>

\* unbindCustomTabs()
unbindCustomTabs ==
    /\ serviceConnection' = FALSE
    /\ customTabsClient' = FALSE
    /\ customTabsSession' = FALSE
    /\ messageChannelReady' = FALSE
    /\ pendingOrigin' = Null

\* onActivityDestroyed()
OnActivityDestroyed ==
    /\ unbindCustomTabs
    /\ activityRef' = FALSE
    /\ UNCHANGED <<lastNavigatedUrl, postMessageRetryCount, pendingRetryOrigin,
                   uiQueue, timers, browserPackage, browserCallback>>
    /\ UNCHANGED <<cppVars, gameQueue, request>>

\* serviceConnection.onCustomTabsServiceConnected(name, client)
OnCustomTabsServiceConnected(newOk) ==
    /\ serviceConnection
    /\ ~customTabsClient
    /\ customTabsClient' = TRUE
    /\ customTabsSession' = newOk
    /\ messageChannelReady' = FALSE
    /\ browserCallback' = (browserCallback \/ newOk)
    /\ UNCHANGED <<activityRef, serviceConnection, pendingOrigin, lastNavigatedUrl,
                   postMessageRetryCount, pendingRetryOrigin, uiQueue, timers,
                   browserPackage>>
    /\ UNCHANGED <<cppVars, gameQueue, request>>

\* A disconnection that leaves the channel marked ready.
OnServiceDisconnectedKeepsReady ==
    /\ serviceConnection
    /\ customTabsClient
    /\ customTabsClient' = FALSE
    /\ customTabsSession' = FALSE
    /\ browserCallback' = FALSE
    /\ UNCHANGED <<activityRef, serviceConnection, messageChannelReady, pendingOrigin,
                   lastNavigatedUrl, postMessageRetryCount, pendingRetryOrigin,
                   uiQueue, timers, browserPackage>>
    /\ UNCHANGED <<cppVars, gameQueue, request>>

\* serviceConnection.onServiceDisconnected(componentName): the browser is gone
OnServiceDisconnected ==
    /\ serviceConnection
    /\ customTabsClient
    /\ customTabsClient' = FALSE
    /\ customTabsSession' = FALSE
    /\ messageChannelReady' = FALSE
    /\ browserCallback' = FALSE
    /\ UNCHANGED <<activityRef, serviceConnection, pendingOrigin, lastNavigatedUrl,
                   postMessageRetryCount, pendingRetryOrigin, uiQueue, timers,
                   browserPackage>>
    /\ UNCHANGED <<cppVars, gameQueue, request>>

\* ---------------------------------------------------------------- Java: the channel
Pending == Len(uiQueue) + Len(timers)

AttemptTask(origin) == [type |-> "attempt", origin |-> origin, delay |-> 0]
\* The two postDelayed lambdas; origin is pendingRetryOrigin as it was when
\* the lambda was posted (the lambda itself captures none: it reads
\* pendingRetryOrigin when it runs).
RetryTask(origin) == [type |-> "retry", origin |-> origin, delay |-> RETRY_DELAY_MS]
NavRetryTask(origin) ==
    [type |-> "navRetry", origin |-> origin, delay |-> NAV_FINISHED_DELAY_MS]

\* attemptPostMessageChannelRequest(activity, origin) from the given statics;
\* result: what customTabsSession.requestPostMessageChannel returned.
attemptPostMessageChannelRequest(session, count, retryOrigin, origin, result) ==
    IF ~session
    THEN [count |-> count, retryOrigin |-> retryOrigin, called |-> Null,
          retry |-> FALSE, accepted |-> FALSE, exhausted |-> FALSE]
    ELSE IF ~result
         THEN IF count + 1 < MAX_POSTMESSAGE_RETRIES
              THEN [count |-> count + 1, retryOrigin |-> retryOrigin, called |-> origin,
                    retry |-> TRUE, accepted |-> FALSE, exhausted |-> FALSE]
              ELSE [count |-> count + 1, retryOrigin |-> Null, called |-> origin,
                    retry |-> FALSE, accepted |-> FALSE, exhausted |-> TRUE]
         ELSE [count |-> count + 1, retryOrigin |-> Null, called |-> origin,
               retry |-> FALSE, accepted |-> TRUE, exhausted |-> FALSE]

\* The guard of both postDelayed lambdas.
RetryGuard(ready, retryOrigin) == ~ready /\ retryOrigin # Null

\* What an attempt leaves in the history of the current request.
Noted(req, a) ==
    [req EXCEPT !.accepted = @ \/ a.accepted,
                !.exhausted = @ \/ a.exhausted,
                !.calls = IF a.called = Null THEN @ ELSE @ + 1,
                !.last = IF a.called = Null THEN "nosession"
                         ELSE IF a.accepted THEN "accepted"
                         ELSE IF a.exhausted THEN "exhausted"
                         ELSE "rejected"]

\* An attempt that tells the game thread when it gives up.
attemptNativesReporting(a) ==
    IF a.exhausted
    THEN <<[kind |-> "nav", name |-> "MessageChannelFailed", arg |-> ""]>>
    ELSE <<>>

\* The native callbacks an attempt makes: none, its outcome is only logged.
attemptNatives(a) == <<>>

\* The history of a new request, before any attempt ran.
NewRequest ==
    [calls |-> 0, last |-> "none", accepted |-> FALSE, exhausted |-> FALSE,
     ready |-> FALSE]

\* A request that resets the channel state before it looks for a session.
requestPostMessageChannelResetsFirst(origin, onUiThread, newOk, result, cap) ==
    LET es == ensureSession(serviceConnection, customTabsClient, customTabsSession, newOk)
        a == attemptPostMessageChannelRequest(TRUE, 0, origin, origin, result)
    IN /\ Pending < cap
       /\ IF ~activityRef \/ origin = ""
          THEN UNCHANGED <<javaVars, request, gameQueue>>
          ELSE /\ serviceConnection' = es.serviceConnection
               /\ customTabsSession' = es.customTabsSession
               /\ browserCallback' = (browserCallback \/ es.created)
               /\ UNCHANGED <<activityRef, customTabsClient, lastNavigatedUrl,
                              browserPackage>>
               /\ pendingOrigin' = origin
               /\ messageChannelReady' = FALSE
               /\ IF ~es.customTabsSession
                  THEN /\ postMessageRetryCount' = 0
                       /\ pendingRetryOrigin' = origin
                       /\ UNCHANGED <<uiQueue, timers, request, gameQueue>>
                  ELSE IF onUiThread
                       THEN /\ postMessageRetryCount' = a.count
                            /\ pendingRetryOrigin' = a.retryOrigin
                            /\ timers' = IF a.retry
                                         THEN Append(timers, RetryTask(origin))
                                         ELSE timers
                            /\ request' = Noted(NewRequest, a)
                            /\ gameQueue' = gameQueue \o attemptNatives(a)
                            /\ UNCHANGED uiQueue
                       ELSE /\ postMessageRetryCount' = 0
                            /\ pendingRetryOrigin' = origin
                            /\ uiQueue' = Append(uiQueue, AttemptTask(origin))
                            /\ request' = NewRequest
                            /\ UNCHANGED <<timers, gameQueue>>
       /\ returned' = Returns("requestPostMessageChannel",
                               activityRef /\ origin # "" /\ es.customTabsSession)
       /\ UNCHANGED objVars

\* A request that goes on counting where the last one stopped.
requestPostMessageChannelKeepsCount(origin, onUiThread, newOk, result, cap) ==
    LET es == ensureSession(serviceConnection, customTabsClient, customTabsSession, newOk)
        a == attemptPostMessageChannelRequest(TRUE, postMessageRetryCount, origin, origin,
                                              result)
    IN /\ Pending < cap
       /\ IF ~activityRef \/ origin = ""
          THEN UNCHANGED <<javaVars, request, gameQueue>>
          ELSE /\ serviceConnection' = es.serviceConnection
               /\ customTabsSession' = es.customTabsSession
               /\ browserCallback' = (browserCallback \/ es.created)
               /\ UNCHANGED <<activityRef, customTabsClient, lastNavigatedUrl,
                              browserPackage>>
               /\ IF ~es.customTabsSession
                  THEN UNCHANGED <<messageChannelReady, pendingOrigin,
                                   postMessageRetryCount, pendingRetryOrigin,
                                   uiQueue, timers, request, gameQueue>>
                  ELSE /\ pendingOrigin' = origin
                       /\ messageChannelReady' = FALSE
                       /\ IF onUiThread
                          THEN /\ postMessageRetryCount' = a.count
                               /\ pendingRetryOrigin' = a.retryOrigin
                               /\ timers' = IF a.retry
                                            THEN Append(timers, RetryTask(origin))
                                            ELSE timers
                               /\ request' = Noted(NewRequest, a)
                               /\ gameQueue' = gameQueue \o attemptNatives(a)
                               /\ UNCHANGED uiQueue
                          ELSE /\ postMessageRetryCount' = postMessageRetryCount
                               /\ pendingRetryOrigin' = origin
                               /\ uiQueue' = Append(uiQueue, AttemptTask(origin))
                               /\ request' = NewRequest
                               /\ UNCHANGED <<timers, gameQueue>>
       /\ returned' = Returns("requestPostMessageChannel",
                               activityRef /\ origin # "" /\ es.customTabsSession)
       /\ UNCHANGED objVars

\* requestPostMessageChannel(activity, origin), called with the current activity.
\* onUiThread: the caller is the UI thread, where runOnUiThread runs the
\* attempt at once; otherwise the attempt is posted to the main looper.
\* cap bounds the messages the main looper holds.
requestPostMessageChannel(origin, onUiThread, newOk, result, cap) ==
    LET es == ensureSession(serviceConnection, customTabsClient, customTabsSession, newOk)
        a == attemptPostMessageChannelRequest(TRUE, 0, origin, origin, result)
    IN /\ Pending < cap
       /\ IF ~activityRef \/ origin = ""
          THEN UNCHANGED <<javaVars, request, gameQueue>>
          ELSE /\ serviceConnection' = es.serviceConnection
               /\ customTabsSession' = es.customTabsSession
               /\ browserCallback' = (browserCallback \/ es.created)
               /\ UNCHANGED <<activityRef, customTabsClient, lastNavigatedUrl,
                              browserPackage>>
               /\ IF ~es.customTabsSession
                  THEN UNCHANGED <<messageChannelReady, pendingOrigin,
                                   postMessageRetryCount, pendingRetryOrigin,
                                   uiQueue, timers, request, gameQueue>>
                  ELSE /\ pendingOrigin' = origin
                       /\ messageChannelReady' = FALSE
                       /\ IF onUiThread
                          THEN /\ postMessageRetryCount' = a.count
                               /\ pendingRetryOrigin' = a.retryOrigin
                               /\ timers' = IF a.retry
                                            THEN Append(timers, RetryTask(origin))
                                            ELSE timers
                               /\ request' = Noted(NewRequest, a)
                               /\ gameQueue' = gameQueue \o attemptNatives(a)
                               /\ UNCHANGED uiQueue
                          ELSE /\ postMessageRetryCount' = 0
                               /\ pendingRetryOrigin' = origin
                               /\ uiQueue' = Append(uiQueue, AttemptTask(origin))
                               /\ request' = NewRequest
                               /\ UNCHANGED <<timers, gameQueue>>
       /\ returned' = Returns("requestPostMessageChannel",
                               activityRef /\ origin # "" /\ es.customTabsSession)
       /\ UNCHANGED objVars

\* A postDelayed message becomes due: messages of one delay become due in the
\* order they were posted, and a 500 ms message posted before a 1000 ms one is
\* due before it.
MayBecomeDue(i) ==
    \A j \in 1..(i - 1) : timers[j].delay > timers[i].delay

Remove(q, i) == SubSeq(q, 1, i - 1) \o SubSeq(q, i + 1, Len(q))

TimerDue(i) ==
    /\ i \in 1..Len(timers)
    /\ MayBecomeDue(i)
    /\ uiQueue' = Append(uiQueue, timers[i])
    /\ timers' = Remove(timers, i)
    /\ UNCHANGED <<activityRef, serviceConnection, customTabsClient, customTabsSession,
                   messageChannelReady, pendingOrigin, lastNavigatedUrl,
                   postMessageRetryCount, pendingRetryOrigin, browserPackage,
                   browserCallback>>
    /\ UNCHANGED <<cppVars, gameQueue, request>>

\* A main looper whose accepted first attempt marks the channel ready.
RunChannelTaskAcceptedIsReady(result) ==
    /\ uiQueue # <<>>
    /\ Head(uiQueue).type \in {"attempt", "retry", "navRetry"}
    /\ LET t == Head(uiQueue)
           acts == t.type = "attempt"
                   \/ RetryGuard(messageChannelReady, pendingRetryOrigin)
           origin == IF t.type = "attempt" THEN t.origin ELSE pendingRetryOrigin
           a == attemptPostMessageChannelRequest(customTabsSession,
                    postMessageRetryCount, pendingRetryOrigin, origin, result)
       IN /\ uiQueue' = Tail(uiQueue)
          /\ IF acts
             THEN /\ postMessageRetryCount' = a.count
                  /\ pendingRetryOrigin' = a.retryOrigin
                  /\ timers' = IF a.retry
                               THEN Append(timers, RetryTask(pendingRetryOrigin))
                               ELSE timers
                  /\ request' = Noted(request, a)
                  /\ gameQueue' = gameQueue \o attemptNatives(a)
             ELSE /\ request' = [request EXCEPT !.last = "skipped"]
                  /\ UNCHANGED <<postMessageRetryCount, pendingRetryOrigin, timers,
                                 gameQueue>>
    /\ messageChannelReady' =
           (\/ messageChannelReady
            \/ /\ Head(uiQueue).type = "attempt"
               /\ customTabsSession
               /\ result)
    /\ UNCHANGED <<activityRef, serviceConnection, customTabsClient, customTabsSession,
                   pendingOrigin, lastNavigatedUrl, browserPackage, browserCallback>>
    /\ UNCHANGED cppVars

\* The main looper runs its first message: the attempt posted by
\* requestPostMessageChannel, or one of the two postDelayed lambdas.
RunChannelTask(result) ==
    /\ uiQueue # <<>>
    /\ Head(uiQueue).type \in {"attempt", "retry", "navRetry"}
    /\ LET t == Head(uiQueue)
           acts == t.type = "attempt"
                   \/ RetryGuard(messageChannelReady, pendingRetryOrigin)
           origin == IF t.type = "attempt" THEN t.origin ELSE pendingRetryOrigin
           a == attemptPostMessageChannelRequest(customTabsSession,
                    postMessageRetryCount, pendingRetryOrigin, origin, result)
       IN /\ uiQueue' = Tail(uiQueue)
          /\ IF acts
             THEN /\ postMessageRetryCount' = a.count
                  /\ pendingRetryOrigin' = a.retryOrigin
                  /\ timers' = IF a.retry
                               THEN Append(timers, RetryTask(pendingRetryOrigin))
                               ELSE timers
                  /\ request' = Noted(request, a)
                  /\ gameQueue' = gameQueue \o attemptNatives(a)
             ELSE /\ request' = [request EXCEPT !.last = "skipped"]
                  /\ UNCHANGED <<postMessageRetryCount, pendingRetryOrigin, timers,
                                 gameQueue>>
    /\ UNCHANGED <<activityRef, serviceConnection, customTabsClient, customTabsSession,
                   messageChannelReady, pendingOrigin, lastNavigatedUrl,
                   browserPackage, browserCallback>>
    /\ UNCHANGED cppVars

\* ---------------------------------------------------------------- Java: executeJava
\* A send that does not wait for the channel to be ready.
executeJavaIgnoresReady(session, ready, resultCode) ==
    IF ~session THEN [result |-> FALSE, posted |-> 0]
    ELSE [result |-> resultCode = RESULT_SUCCESS, posted |-> 1]

\* executeJava(message) from the given statics; resultCode: what
\* customTabsSession.postMessage returned. posted counts the calls of it.
executeJava(session, ready, resultCode) ==
    IF ~session THEN [result |-> FALSE, posted |-> 0]
    ELSE IF ~ready THEN [result |-> FALSE, posted |-> 0]
    ELSE [result |-> resultCode = RESULT_SUCCESS, posted |-> 1]

ExecuteJava(message, resultCode) ==
    /\ returned' = Returns("executeJava",
                            executeJava(customTabsSession, messageChannelReady,
                                        resultCode))
    /\ UNCHANGED <<javaVars, objVars, gameQueue, request>>

\* ---------------------------------------------------------------- JNI: the hop to the game thread
\* The switch of nativeOnNavigationEvent.
EventName(jEvent) ==
    CASE jEvent = 1 -> "NavigationStarted"
      [] jEvent = 2 -> "NavigationFinished"
      [] jEvent = 3 -> "NavigationFailed"
      [] jEvent = 4 -> "NavigationAborted"
      [] jEvent = 5 -> "TabShown"
      [] jEvent = 6 -> "TabHidden"
      [] OTHER -> "Unknown(" \o ToString(jEvent) \o ")"

\* The lambdas handed to AsyncTask(ENamedThreads::GameThread, ...), with what
\* they capture.
nativeOnNavigationEvent(jEvent, jUrl) ==
    [kind |-> "nav", name |-> EventName(jEvent), arg |-> jUrl]
nativeOnTabOpened == [kind |-> "nav", name |-> "TabOpened", arg |-> ""]
nativeOnTabClosed == [kind |-> "nav", name |-> "TabClosed", arg |-> ""]
nativeOnMessageChannelReady ==
    [kind |-> "nav", name |-> "MessageChannelReady", arg |-> ""]
nativeOnPostMessage(jMessage, jOrigin) ==
    [kind |-> "postMessage", name |-> jMessage, arg |-> jOrigin]
nativeOnDeepLinkReceived(jAction, jParamsJson) ==
    [kind |-> "deepLink", name |-> jAction, arg |-> jParamsJson]

\* ---------------------------------------------------------------- Java: CALLBACK
\* A callback that reports the opened tab before the event itself.
OnNavigationEventOpenedFirst(navigationEvent, cap, gameCap) ==
    LET first == nativeOnNavigationEvent(navigationEvent, lastNavigatedUrl)
        posts == IF navigationEvent = TAB_SHOWN THEN <<nativeOnTabOpened, first>>
                 ELSE <<first>>
        again == /\ navigationEvent = NAVIGATION_FINISHED
                 /\ ~messageChannelReady
                 /\ pendingRetryOrigin # Null
                 /\ activityRef
    IN /\ browserCallback
       /\ Len(gameQueue) + Len(posts) <= gameCap
       /\ Pending < cap
       /\ gameQueue' = gameQueue \o posts
       /\ timers' = IF again THEN Append(timers, NavRetryTask(pendingRetryOrigin))
                    ELSE timers
       /\ UNCHANGED <<activityRef, serviceConnection, customTabsClient,
                      customTabsSession, messageChannelReady, pendingOrigin,
                      lastNavigatedUrl, postMessageRetryCount, pendingRetryOrigin,
                      uiQueue, browserPackage, browserCallback>>
       /\ UNCHANGED <<cppVars, request>>

\* A callback that reports a hidden tab as a closed one.
OnNavigationEventHiddenPostsClosed(navigationEvent, cap, gameCap) ==
    LET first == nativeOnNavigationEvent(navigationEvent, lastNavigatedUrl)
        posts == IF navigationEvent = TAB_SHOWN THEN <<first, nativeOnTabOpened>>
                 ELSE IF navigationEvent = TAB_HIDDEN THEN <<first, nativeOnTabClosed>>
                 ELSE <<first>>
        again == /\ navigationEvent = NAVIGATION_FINISHED
                 /\ ~messageChannelReady
                 /\ pendingRetryOrigin # Null
                 /\ activityRef
    IN /\ browserCallback
       /\ Len(gameQueue) + Len(posts) <= gameCap
       /\ Pending < cap
       /\ gameQueue' = gameQueue \o posts
       /\ timers' = IF again THEN Append(timers, NavRetryTask(pendingRetryOrigin))
                    ELSE timers
       /\ UNCHANGED <<activityRef, serviceConnection, customTabsClient,
                      customTabsSession, messageChannelReady, pendingOrigin,
                      lastNavigatedUrl, postMessageRetryCount, pendingRetryOrigin,
                      uiQueue, browserPackage, browserCallback>>
       /\ UNCHANGED <<cppVars, request>>

\* CALLBACK.onNavigationEvent(navigationEvent, extras)
OnNavigationEvent(navigationEvent, cap, gameCap) ==
    LET first == nativeOnNavigationEvent(navigationEvent, lastNavigatedUrl)
        posts == IF navigationEvent = TAB_SHOWN THEN <<first, nativeOnTabOpened>>
                 ELSE <<first>>
        again == /\ navigationEvent = NAVIGATION_FINISHED
                 /\ ~messageChannelReady
                 /\ pendingRetryOrigin # Null
                 /\ activityRef
    IN /\ browserCallback
       /\ Len(gameQueue) + Len(posts) <= gameCap
       /\ Pending < cap
       /\ gameQueue' = gameQueue \o posts
       /\ timers' = IF again THEN Append(timers, NavRetryTask(pendingRetryOrigin))
                    ELSE timers
       /\ UNCHANGED <<activityRef, serviceConnection, customTabsClient,
                      customTabsSession, messageChannelReady, pendingOrigin,
                      lastNavigatedUrl, postMessageRetryCount, pendingRetryOrigin,
                      uiQueue, browserPackage, browserCallback>>
       /\ UNCHANGED <<cppVars, request>>

\* A callback that marks the channel ready and leaves the pending retry.
OnMessageChannelReadyKeepsRetry(gameCap) ==
    /\ browserCallback
    /\ Len(gameQueue) < gameCap
    /\ messageChannelReady' = TRUE
    /\ gameQueue' = Append(gameQueue, nativeOnMessageChannelReady)
    /\ request' = [request EXCEPT !.ready = TRUE]
    /\ UNCHANGED <<activityRef, serviceConnection, customTabsClient, customTabsSession,
                   pendingOrigin, lastNavigatedUrl, postMessageRetryCount,
                   pendingRetryOrigin, uiQueue, timers, browserPackage,
                   browserCallback>>
    /\ UNCHANGED cppVars

\* CALLBACK.onMessageChannelReady(extras)
OnMessageChannelReady(gameCap) ==
    /\ browserCallback
    /\ Len(gameQueue) < gameCap
    /\ messageChannelReady' = TRUE
    /\ pendingRetryOrigin' = Null
    /\ gameQueue' = Append(gameQueue, nativeOnMessageChannelReady)
    /\ request' = [request EXCEPT !.ready = TRUE]
    /\ UNCHANGED <<activityRef, serviceConnection, customTabsClient, customTabsSession,
                   pendingOrigin, lastNavigatedUrl, postMessageRetryCount, uiQueue,
                   timers, browserPackage, browserCallback>>
    /\ UNCHANGED cppVars

\* CALLBACK.onPostMessage(message, extras)
OnPostMessage(message, gameCap) ==
    /\ browserCallback
    /\ Len(gameQueue) < gameCap
    /\ gameQueue' = Append(gameQueue,
           nativeOnPostMessage(message,
               IF pendingOrigin # Null THEN pendingOrigin ELSE ""))
    /\ UNCHANGED <<javaVars, cppVars, request>>

\* ---------------------------------------------------------------- C++: the registry
None == "none"

\* A registry that keeps the instance it holds when another one registers.
RegisterActiveInstanceKeepsFirst(Instance) ==
    IF ActiveInstance # None THEN ActiveInstance ELSE Instance

\* ChromeCustomTabsRegistry::RegisterActiveInstance: the new ActiveInstance
RegisterActiveInstance(Instance) == Instance

\* ChromeCustomTabsRegistry::UnregisterActiveInstance: the new ActiveInstance
UnregisterActiveInstance == None

\* TWeakObjectPtr::IsValid, ChromeCustomTabsRegistry::GetActiveInstance
GetActiveInstance ==
    IF ActiveInstance # None /\ alive[ActiveInstance] THEN ActiveInstance ELSE None

\* ---------------------------------------------------------------- C++: UCPP_ABCT_Base
\* The fields of instance i a handler reads and writes, with the registry;
\* reg is the registry call the handler made, if any.
StateOf(i) ==
    [open |-> bIsCustomTabOpen[i], url |-> CurrentURL[i],
     event |-> LastNavigationEvent[i], action |-> LastDeepLinkAction[i],
     params |-> LastDeepLinkParams[i], active |-> ActiveInstance,
     reg |-> [op |-> "none", inst |-> None], out |-> <<>>, seen |-> <<>>]

OnCustomTabOpened(st, i, URL) ==
    [st EXCEPT !.open = TRUE, !.url = URL, !.active = RegisterActiveInstance(i),
               !.reg = [op |-> "register", inst |-> i]]

\* A close that leaves the registry as it is.
OnCustomTabClosedKeepsRegistry(st) ==
    [st EXCEPT !.open = FALSE, !.url = ""]

\* A close that leaves the registry alone when the tab was not open.
OnCustomTabClosedUnregistersIfOpen(st) ==
    [st EXCEPT !.open = FALSE, !.url = "",
               !.active = IF st.open THEN UnregisterActiveInstance ELSE @,
               !.reg = IF st.open THEN [op |-> "unregister", inst |-> None] ELSE @]

\* A close that keeps the URL of the closed tab.
OnCustomTabClosedKeepsURL(st) ==
    [st EXCEPT !.open = FALSE, !.active = UnregisterActiveInstance,
               !.reg = [op |-> "unregister", inst |-> None]]

OnCustomTabClosed(st) ==
    [st EXCEPT !.open = FALSE, !.url = "", !.active = UnregisterActiveInstance,
               !.reg = [op |-> "unregister", inst |-> None]]

\* The Blueprint events OnNavigationEvent and OnDeepLinkReceived of instance i
Broadcast(st, i, kind, name, arg) ==
    [st EXCEPT !.out = Append(@, [inst |-> i, kind |-> kind, name |-> name,
                                  arg |-> arg]),
               !.seen = Append(@, [open |-> st.open, url |-> st.url,
                                   active |-> st.active])]

\* A handler that takes a hidden tab for a closed one.
HandleNavigationEventHiddenCloses(st, i, Event, URL) ==
    LET s1 == [st EXCEPT !.event = Event, !.url = IF URL # "" THEN URL ELSE @]
        s2 == IF Event \in {"TabClosed", "TabHidden"} THEN OnCustomTabClosed(s1)
              ELSE IF Event = "NavigationStarted" /\ ~s1.open
                   THEN OnCustomTabOpened(s1, i, URL)
                   ELSE s1
    IN Broadcast(s2, i, "nav", Event, URL)

\* A handler that toggles: a navigation that starts in an open tab closes it.
HandleNavigationEventToggles(st, i, Event, URL) ==
    LET s1 == [st EXCEPT !.event = Event, !.url = IF URL # "" THEN URL ELSE @]
        s2 == IF Event = "TabClosed" THEN OnCustomTabClosed(s1)
              ELSE IF Event = "NavigationStarted"
                   THEN IF s1.open THEN OnCustomTabClosed(s1)
                        ELSE OnCustomTabOpened(s1, i, URL)
                   ELSE s1
    IN Broadcast(s2, i, "nav", Event, URL)

\* A handler that broadcasts the event before it updates the instance.
HandleNavigationEventBroadcastsFirst(st, i, Event, URL) ==
    LET s0 == Broadcast(st, i, "nav", Event, URL)
        s1 == [s0 EXCEPT !.event = Event, !.url = IF URL # "" THEN URL ELSE @]
    IN IF Event = "TabClosed" THEN OnCustomTabClosed(s1)
       ELSE IF Event = "NavigationStarted" /\ ~s1.open
            THEN OnCustomTabOpened(s1, i, URL)
            ELSE s1

\* A handler that stores the URL of the event after it handled the event.
HandleNavigationEventStoresURLLast(st, i, Event, URL) ==
    LET s1 == [st EXCEPT !.event = Event]
        s2 == IF Event = "TabClosed" THEN OnCustomTabClosed(s1)
              ELSE IF Event = "NavigationStarted" /\ ~s1.open
                   THEN OnCustomTabOpened(s1, i, URL)
                   ELSE s1
        s3 == [s2 EXCEPT !.url = IF URL # "" THEN URL ELSE @]
    IN Broadcast(s3, i, "nav", Event, URL)

\* UCPP_ABCT_Base::HandleNavigationEvent(Event, URL) on instance i
HandleNavigationEvent(st, i, Event, URL) ==
    LET s1 == [st EXCEPT !.event = Event, !.url = IF URL # "" THEN URL ELSE @]
        s2 == IF Event = "TabClosed" THEN OnCustomTabClosed(s1)
              ELSE IF Event = "NavigationStarted" /\ ~s1.open
                   THEN OnCustomTabOpened(s1, i, URL)
                   ELSE s1
    IN Broadcast(s2, i, "nav", Event, URL)

HandleDeepLink(st, i, Action, ParamsJson) ==
    Broadcast([st EXCEPT !.action = Action, !.params = ParamsJson],
              i, "deepLink", Action, ParamsJson)

\* The handler's result written back to instance i; out is what it broadcast.
Store(i, st) ==
    /\ bIsCustomTabOpen' = [bIsCustomTabOpen EXCEPT ![i] = st.open]
    /\ CurrentURL' = [CurrentURL EXCEPT ![i] = st.url]
    /\ LastNavigationEvent' = [LastNavigationEvent EXCEPT ![i] = st.event]
    /\ LastDeepLinkAction' = [LastDeepLinkAction EXCEPT ![i] = st.action]
    /\ LastDeepLinkParams' = [LastDeepLinkParams EXCEPT ![i] = st.params]
    /\ ActiveInstance' = st.active
    /\ observer' = [target |-> i, out |-> st.out, seen |-> st.seen]
    /\ lastRegistryOp' = IF st.reg.op = "none" THEN lastRegistryOp ELSE st.reg
    /\ UNCHANGED alive

\* A call from the host on instance i written back: it broadcasts nothing.
Called(i, st) ==
    /\ bIsCustomTabOpen' = [bIsCustomTabOpen EXCEPT ![i] = st.open]
    /\ CurrentURL' = [CurrentURL EXCEPT ![i] = st.url]
    /\ ActiveInstance' = st.active
    /\ lastRegistryOp' = IF st.reg.op = "none" THEN lastRegistryOp ELSE st.reg
    /\ UNCHANGED <<alive, LastNavigationEvent, LastDeepLinkAction,
                   LastDeepLinkParams, observer>>

\* The lambda of nativeOnPostMessage with an instance: it only logs.
Logged(target) ==
    /\ observer' = [target |-> target, out |-> <<>>, seen |-> <<>>]
    /\ UNCHANGED <<alive, bIsCustomTabOpen, CurrentURL, LastNavigationEvent,
                   LastDeepLinkAction, LastDeepLinkParams, ActiveInstance,
                   lastRegistryOp>>

\* A lambda that finds no instance: nothing changes and nothing is broadcast.
Dropped ==
    /\ observer' = [target |-> None, out |-> <<>>, seen |-> <<>>]
    /\ UNCHANGED <<alive, bIsCustomTabOpen, CurrentURL, LastNavigationEvent,
                   LastDeepLinkAction, LastDeepLinkParams, ActiveInstance,
                   lastRegistryOp>>

\* A lambda that, without an active instance, goes to an instance with an open tab.
GameTaskToAnyOpen(task, target) ==
    LET open == {i \in Instances : alive[i] /\ bIsCustomTabOpen[i]}
        to == IF target # None THEN target
              ELSE IF open # {} THEN CHOOSE i \in open : TRUE
              ELSE None
    IN IF to = None THEN Dropped
       ELSE CASE task.kind = "nav" ->
                   Store(to, HandleNavigationEvent(StateOf(to), to, task.name, task.arg))
              [] task.kind = "deepLink" ->
                   Store(to, HandleDeepLink(StateOf(to), to, task.name, task.arg))
              [] OTHER -> Logged(to)

\* The game thread runs the first posted lambda: it asks the registry for the
\* active instance when it runs, and does nothing without one.
GameTask(task, target) ==
    IF target = None THEN Dropped
    ELSE CASE task.kind = "nav" ->
                Store(target, HandleNavigationEvent(StateOf(target), target,
                                                    task.name, task.arg))
           [] task.kind = "deepLink" ->
                Store(target, HandleDeepLink(StateOf(target), target,
                                             task.name, task.arg))
           [] OTHER -> Logged(target)

\* A game thread that runs the lambda posted last.
RunGameTaskNewestFirst ==
    /\ gameQueue # <<>>
    /\ GameTask(gameQueue[Len(gameQueue)], GetActiveInstance)
    /\ gameQueue' = SubSeq(gameQueue, 1, Len(gameQueue) - 1)
    /\ UNCHANGED <<javaVars, request, returned>>

RunGameTask ==
    /\ gameQueue # <<>>
    /\ GameTask(Head(gameQueue), GetActiveInstance)
    /\ gameQueue' = Tail(gameQueue)
    /\ UNCHANGED <<javaVars, request, returned>>

\* HandleNavigationEvent is a public member: C++ code of the host calls it on
\* instance i, open or not, registered or not.
CallHandleNavigationEvent(i, Event, URL) ==
    /\ alive[i]
    /\ Store(i, HandleNavigationEvent(StateOf(i), i, Event, URL))
    /\ UNCHANGED <<javaVars, gameQueue, request, returned>>

\* The engine collects the UObject: weak pointers to it become invalid.
DestroyInstance(i) ==
    /\ alive[i]
    /\ alive' = [alive EXCEPT ![i] = FALSE]
    /\ UNCHANGED <<bIsCustomTabOpen, CurrentURL, LastNavigationEvent,
                   LastDeepLinkAction, LastDeepLinkParams, ActiveInstance, observer,
                   lastRegistryOp>>
    /\ UNCHANGED <<javaVars, gameQueue, request, returned>>

\* ---------------------------------------------------------------- Java: queryStringToJson
\* Strings that are parsed are sequences of one-character strings.
IndexOf(s, c) ==
    IF \E k \in 1..Len(s) : s[k] = c
    THEN CHOOSE k \in 1..Len(s) : s[k] = c /\ \A j \in 1..(k - 1) : s[j] # c
    ELSE 0

RECURSIVE SplitAll(_, _)
SplitAll(s, c) ==
    LET k == IndexOf(s, c)
    IN IF k = 0 THEN <<s>>
       ELSE <<SubSeq(s, 1, k - 1)>> \o SplitAll(SubSeq(s, k + 1, Len(s)), c)

RECURSIVE DropTrailingEmpty(_)
DropTrailingEmpty(parts) ==
    IF parts # <<>> /\ parts[Len(parts)] = <<>>
    THEN DropTrailingEmpty(SubSeq(parts, 1, Len(parts) - 1))
    ELSE parts

\* String.split(regex) of a one-character regex: trailing empty strings are removed
Split(s, c) == IF IndexOf(s, c) = 0 THEN <<s>> ELSE DropTrailingEmpty(SplitAll(s, c))

\* String.split(regex, 2)
Split2(s, c) ==
    LET k == IndexOf(s, c)
    IN IF k = 0 THEN <<s>> ELSE <<SubSeq(s, 1, k - 1), SubSeq(s, k + 1, Len(s))>>

HexDigits == {"0", "1", "2", "3", "4", "5", "6", "7", "8", "9",
              "A", "B", "C", "D", "E", "F", "a", "b", "c", "d", "e", "f"}

\* The character of an escape %XY, for the escapes the model's strings use.
Unescaped(x, y) ==
    CASE <<x, y>> = <<"2", "2">> -> "\""
      [] <<x, y>> = <<"5", "C">> -> "\\"
      [] <<x, y>> = <<"2", "6">> -> "&"
      [] <<x, y>> = <<"3", "D">> -> "="
      [] <<x, y>> = <<"2", "5">> -> "%"
      [] <<x, y>> = <<"2", "0">> -> " "
      [] <<x, y>> = <<"3", "1">> -> "1"
      [] OTHER -> "%" \o x \o y

\* URLDecoder.decode(s, "UTF-8"): ok is FALSE where it throws
\* IllegalArgumentException (an incomplete or non-hexadecimal escape).
RECURSIVE URLDecode(_)
URLDecode(s) ==
    IF s = <<>> THEN [ok |-> TRUE, value |-> <<>>]
    ELSE IF s[1] = "%"
         THEN IF Len(s) >= 3 /\ s[2] \in HexDigits /\ s[3] \in HexDigits
              THEN LET rest == URLDecode(SubSeq(s, 4, Len(s)))
                   IN [ok |-> rest.ok,
                       value |-> <<Unescaped(s[2], s[3])>> \o rest.value]
              ELSE [ok |-> FALSE, value |-> <<>>]
         ELSE LET rest == URLDecode(Tail(s))
              IN [ok |-> rest.ok,
                  value |-> <<IF s[1] = "+" THEN " " ELSE s[1]>> \o rest.value]

\* The loop of queryStringToJson from pair i on.
RECURSIVE JsonPairs(_, _)
JsonPairs(pairs, i) ==
    IF i > Len(pairs) THEN [ok |-> TRUE, value |-> <<>>]
    ELSE LET keyValue == Split2(pairs[i], "=")
             rest == JsonPairs(pairs, i + 1)
         IN IF Len(keyValue) = 2
            THEN LET decoded == URLDecode(keyValue[2])
                 IN [ok |-> decoded.ok /\ rest.ok,
                     value |-> (IF i > 1 THEN <<",">> ELSE <<>>)
                               \o <<"\"">> \o keyValue[1] \o <<"\"", ":", "\"">>
                               \o decoded.value \o <<"\"">> \o rest.value]
            ELSE rest

\* queryStringToJson(query): ok is FALSE where URLDecoder.decode throws. A null
\* query is the empty sequence here: the first test treats the two alike.
queryStringToJson(query) ==
    IF query = <<>> THEN [ok |-> TRUE, value |-> <<"{", "}">>]
    ELSE LET body == JsonPairs(Split(query, "&"), 1)
         IN [ok |-> body.ok, value |-> <<"{">> \o body.value \o <<"}">>]

\* What handleDeepLink(intent) does: an intent is null or has data (null or a
\* Uri with a scheme, a host and a query, each possibly null; query is what
\* getQuery() returns). thrown: URLDecoder.decode threw IllegalArgumentException,
\* which nothing catches, so nothing is posted and nothing is returned.
handleDeepLinkResult(intent) ==
    LET json == queryStringToJson(intent.query)
    IN IF intent.null \/ ~intent.data \/ intent.scheme = Null
       THEN [result |-> FALSE, thrown |-> FALSE, natives |-> <<>>]
       ELSE IF ~json.ok
            THEN [result |-> FALSE, thrown |-> TRUE, natives |-> <<>>]
            ELSE [result |-> TRUE, thrown |-> FALSE,
                  natives |-> <<nativeOnDeepLinkReceived(
                                    IF intent.host # Null THEN intent.host ELSE "",
                                    json.value)>>]

\* handleDeepLink(intent)
handleDeepLink(intent, gameCap) ==
    /\ Len(gameQueue) < gameCap
    /\ gameQueue' = gameQueue \o handleDeepLinkResult(intent).natives
    /\ UNCHANGED <<javaVars, cppVars, request>>

\* handleDeepLink(intent) called by the activity, with what it returned.
CallHandleDeepLink(intent, gameCap) ==
    /\ Len(gameQueue) < gameCap
    /\ gameQueue' = gameQueue \o handleDeepLinkResult(intent).natives
    /\ returned' = Returns("handleDeepLink",
                            [intent |-> intent,
                             result |-> handleDeepLinkResult(intent).result,
                             thrown |-> handleDeepLinkResult(intent).thrown])
    /\ UNCHANGED <<javaVars, objVars, request>>

\* queryStringToJson(query) applied to the query of this behaviour, with the
\* text it returned.
CallQueryStringToJson ==
    /\ returned.op = "none"
    /\ returned' = Returns("queryStringToJson",
                            [ok |-> queryStringToJson(returned.given).ok,
                             json |-> queryStringToJson(returned.given).value])
    /\ UNCHANGED <<javaVars, objVars, gameQueue, request>>

\* ---------------------------------------------------------------- C++: deep link parameters
\* TJsonReader and FJsonSerializer::Deserialize are the engine's; they are
\* modelled here for the texts queryStringToJson can produce: an object whose
\* values are string tokens.
Whitespace == {" ", "\t", "\n", "\r"}

RECURSIVE SkipWhitespace(_, _)
SkipWhitespace(s, k) ==
    IF k <= Len(s) /\ s[k] \in Whitespace THEN SkipWhitespace(s, k + 1) ELSE k

\* The character an escape \c stands for.
EscapedChar(c) ==
    CASE c = "n" -> "\n"
      [] c = "r" -> "\r"
      [] c = "t" -> "\t"
      [] c = "f" -> "\f"
      [] c = "b" -> "<BS>"
      [] OTHER -> c

\* The string token whose opening quote is at k - 1: its characters up to the
\* closing quote, with the escapes replaced; next is the position after the
\* closing quote. ok is FALSE on an unknown escape and when the text ends
\* before the closing quote.
RECURSIVE ParseStringToken(_, _)
ParseStringToken(s, k) ==
    IF k > Len(s) THEN [ok |-> FALSE, value |-> <<>>, next |-> k]
    ELSE IF s[k] = "\"" THEN [ok |-> TRUE, value |-> <<>>, next |-> k + 1]
    ELSE IF s[k] = "\\"
         THEN IF k + 1 > Len(s) THEN [ok |-> FALSE, value |-> <<>>, next |-> k]
              ELSE IF s[k + 1] \in {"\"", "\\", "/", "b", "f", "n", "r", "t"}
                   THEN LET rest == ParseStringToken(s, k + 2)
                        IN [ok |-> rest.ok,
                            value |-> <<EscapedChar(s[k + 1])>> \o rest.value,
                            next |-> rest.next]
                   ELSE IF /\ s[k + 1] = "u"
                           /\ k + 5 <= Len(s)
                           /\ \A j \in (k + 2)..(k + 5) : s[j] \in HexDigits
                        THEN LET rest == ParseStringToken(s, k + 6)
                             IN [ok |-> rest.ok,
                                 value |-> <<"\\u" \o s[k + 2] \o s[k + 3]
                                             \o s[k + 4] \o s[k + 5]>> \o rest.value,
                                 next |-> rest.next]
                        ELSE [ok |-> FALSE, value |-> <<>>, next |-> k]
         ELSE LET rest == ParseStringToken(s, k + 1)
              IN [ok |-> rest.ok, value |-> <<s[k]>> \o rest.value, next |-> rest.next]

\* The members of an object from position k to its closing brace and the end
\* of the text. bCommaPrepend: a member was read before, so a comma comes
\* first. A value that is not a string token (a number, a literal, a nested
\* value) does not occur in the model's texts, where every colon outside a
\* string is the one queryStringToJson writes before a quote.
RECURSIVE ReadNextObjectValue(_, _, _)
ReadNextObjectValue(s, k, bCommaPrepend) ==
    LET failed == [ok |-> FALSE, fields |-> <<>>]
        k1 == SkipWhitespace(s, k)
    IN IF k1 > Len(s) THEN failed
       ELSE IF s[k1] = "}"
            THEN [ok |-> SkipWhitespace(s, k1 + 1) > Len(s), fields |-> <<>>]
            ELSE LET k2 == IF ~bCommaPrepend THEN k1
                           ELSE IF s[k1] = "," THEN SkipWhitespace(s, k1 + 1)
                           ELSE 0
                 IN IF k2 = 0 \/ k2 > Len(s) THEN failed
                    ELSE IF s[k2] # "\"" THEN failed
                    ELSE LET identifier == ParseStringToken(s, k2 + 1)
                             k3 == SkipWhitespace(s, identifier.next)
                         IN IF ~identifier.ok \/ k3 > Len(s) THEN failed
                            ELSE IF s[k3] # ":" THEN failed
                            ELSE LET k4 == SkipWhitespace(s, k3 + 1)
                                 IN IF k4 > Len(s) THEN failed
                                    ELSE IF s[k4] # "\"" THEN failed
                                    ELSE LET v == ParseStringToken(s, k4 + 1)
                                             rest == ReadNextObjectValue(s, v.next, TRUE)
                                         IN IF ~v.ok THEN failed
                                            ELSE [ok |-> rest.ok,
                                                  fields |->
                                                      <<[key |-> identifier.value,
                                                         value |-> v.value]>>
                                                      \o rest.fields]

\* FJsonSerializer::Deserialize(Reader, JsonObject): the fields in the order
\* of the text.
Deserialize(json) ==
    LET k == SkipWhitespace(json, 1)
    IN IF k > Len(json) THEN [ok |-> FALSE, fields |-> <<>>]
       ELSE IF json[k] # "{" THEN [ok |-> FALSE, fields |-> <<>>]
       ELSE ReadNextObjectValue(json, k + 1, FALSE)

HasField(fields, Key) == \E n \in 1..Len(fields) : fields[n].key = Key

\* JsonObject->GetStringField(Key): a later field of the same name replaced
\* the earlier one in the object's map.
GetStringField(fields, Key) ==
    LET n == CHOOSE m \in 1..Len(fields) :
                 /\ fields[m].key = Key
                 /\ \A j \in (m + 1)..Len(fields) : fields[j].key # Key
    IN fields[n].value

\* GetDeepLinkParameter(ParamsJson, Key, OutValue): found is the value
\* returned; value is OutValue, the empty string where it is not written.
GetDeepLinkParameter(ParamsJson, Key) ==
    IF ParamsJson = <<>> \/ Key = <<>> THEN [found |-> FALSE, value |-> <<>>]
    ELSE LET JsonObject == Deserialize(ParamsJson)
         IN IF JsonObject.ok
            THEN IF HasField(JsonObject.fields, Key)
                 THEN [found |-> TRUE, value |-> GetStringField(JsonObject.fields, Key)]
                 ELSE [found |-> FALSE, value |-> <<>>]
            ELSE [found |-> FALSE, value |-> <<>>]

Digits == <<"0", "1", "2", "3", "4", "5", "6", "7", "8", "9">>

IsDigit(c) == \E n \in 1..Len(Digits) : Digits[n] = c

DigitValue(c) == (CHOOSE n \in 1..Len(Digits) : Digits[n] = c) - 1

\* The value of the digits s starts with, after acc.
RECURSIVE LeadingDigits(_, _)
LeadingDigits(s, acc) ==
    IF s = <<>> THEN acc
    ELSE IF ~IsDigit(s[1]) THEN acc
    ELSE LeadingDigits(Tail(s), 10 * acc + DigitValue(s[1]))

\* FCString::Atoi: leading white space, a sign, then the digits there are; 0
\* when there is none.
Atoi(s) ==
    LET t == SubSeq(s, SkipWhitespace(s, 1), Len(s))
    IN IF t = <<>> THEN 0
       ELSE IF t[1] = "-" THEN 0 - LeadingDigits(Tail(t), 0)
       ELSE IF t[1] = "+" THEN LeadingDigits(Tail(t), 0)
       ELSE LeadingDigits(t, 0)

\* FCString::Atof on the model's texts, which have no decimal point and no
\* exponent: the number the text starts with, 0 when there is none.
Atof(s) == Atoi(s)

\* GetDeepLinkParameterAsFloat(ParamsJson, Key, OutValue); value is 0 where
\* OutValue is not written.
GetDeepLinkParameterAsFloat(ParamsJson, Key) ==
    LET StringValue == GetDeepLinkParameter(ParamsJson, Key)
    IN IF StringValue.found THEN [found |-> TRUE, value |-> Atof(StringValue.value)]
       ELSE [found |-> FALSE, value |-> 0]

\* GetDeepLinkParameterAsInt(ParamsJson, Key, OutValue)
GetDeepLinkParameterAsInt(ParamsJson, Key) ==
    LET StringValue == GetDeepLinkParameter(ParamsJson, Key)
    IN IF StringValue.found THEN [found |-> TRUE, value |-> Atoi(StringValue.value)]
       ELSE [found |-> FALSE, value |-> 0]

\* GetDeepLinkParameterAsVector(ParamsJson, OutVector)
GetDeepLinkParameterAsVector(ParamsJson) ==
    LET X == GetDeepLinkParameterAsFloat(ParamsJson, <<"x">>)
        Y == GetDeepLinkParameterAsFloat(ParamsJson, <<"y">>)
        Z == GetDeepLinkParameterAsFloat(ParamsJson, <<"z">>)
    IN IF X.found /\ Y.found /\ Z.found
       THEN [found |-> TRUE, value |-> <<X.value, Y.value, Z.value>>]
       ELSE [found |-> FALSE, value |-> <<0, 0, 0>>]

\* The host calls a helper of instance i with the parameters the instance
\* received last.
CallGetDeepLinkParameter(i, Key) ==
    LET r == GetDeepLinkParameter(LastDeepLinkParams[i], Key)
    IN /\ alive[i]
       /\ returned' = Returns("GetDeepLinkParameter",
                               [json |-> LastDeepLinkParams[i], key |-> Key,
                                result |-> r.found, out |-> r.value])
       /\ UNCHANGED <<javaVars, objVars, gameQueue, request>>

CallGetDeepLinkParameterAsFloat(i, Key) ==
    LET r == GetDeepLinkParameterAsFloat(LastDeepLinkParams[i], Key)
    IN /\ alive[i]
       /\ returned' = Returns("GetDeepLinkParameterAsFloat",
                               [json |-> LastDeepLinkParams[i], key |-> Key,
                                result |-> r.found, out |-> r.value])
       /\ UNCHANGED <<javaVars, objVars, gameQueue, request>>

CallGetDeepLinkParameterAsInt(i, Key) ==
    LET r == GetDeepLinkParameterAsInt(LastDeepLinkParams[i], Key)
    IN /\ alive[i]
       /\ returned' = Returns("GetDeepLinkParameterAsInt",
                               [json |-> LastDeepLinkParams[i], key |-> Key,
                                result |-> r.found, out |-> r.value])
       /\ UNCHANGED <<javaVars, objVars, gameQueue, request>>

CallGetDeepLinkParameterAsVector(i) ==
    LET r == GetDeepLinkParameterAsVector(LastDeepLinkParams[i])
    IN /\ alive[i]
       /\ returned' = Returns("GetDeepLinkParameterAsVector",
                               [json |-> LastDeepLinkParams[i],
                                result |-> r.found, out |-> r.value])
       /\ UNCHANGED <<javaVars, objVars, gameQueue, request>>

\* ---------------------------------------------------------------- open and close
\* openTab: the URL with the query parameters appended for a custom user agent
FinalUrl(url, userAgent) ==
    IF userAgent # ""
    THEN url \o "?ue_client=true&ue_user_agent=" \o userAgent
    ELSE url

OpenInternalTask(url) == [type |-> "openInternal", origin |-> url, delay |-> 0]
CloseTask == [type |-> "close", origin |-> Null, delay |-> 0]

\* An open() whose fallback reports success whether or not the launch worked.
openTabResultFallbackAlwaysTrue(url, fallbackOk) ==
    IF ~activityRef \/ url = "" THEN FALSE
    ELSE TRUE

\* ChromeCustomTabs.openTab(url, toolbarColorHex, userAgent, customHeader) and
\* the open() it calls: TRUE when it returns true. fallbackOk: the ACTION_VIEW
\* intent found an activity.
openTabResult(url, fallbackOk) ==
    IF ~activityRef \/ url = "" THEN FALSE
    ELSE IF ~browserPackage THEN fallbackOk
    ELSE TRUE

\* What openTab leaves in the Java statics.
openTab(url, userAgent, newOk) ==
    LET es == ensureSession(serviceConnection, customTabsClient, customTabsSession, newOk)
    IN IF activityRef /\ url # "" /\ browserPackage
       THEN /\ serviceConnection' = es.serviceConnection
            /\ customTabsSession' = es.customTabsSession
            /\ browserCallback' = (browserCallback \/ es.created)
            /\ lastNavigatedUrl' = FinalUrl(url, userAgent)
            /\ uiQueue' = Append(uiQueue, OpenInternalTask(FinalUrl(url, userAgent)))
            /\ UNCHANGED <<activityRef, customTabsClient, messageChannelReady,
                           pendingOrigin, postMessageRetryCount, pendingRetryOrigin,
                           timers, browserPackage>>
       ELSE UNCHANGED javaVars

\* An OpenChromeCustomTab that marks the tab open before it knows the result.
OpenChromeCustomTabMarksOpenFirst(i, URL, userAgent, jni, fallbackOk, newOk, cap) ==
    /\ alive[i]
    /\ Pending < cap
    /\ IF URL = "" \/ ~jni
       THEN UNCHANGED <<javaVars, objVars>>
       ELSE /\ openTab(URL, userAgent, newOk)
            /\ Called(i, OnCustomTabOpened(StateOf(i), i, URL))
    /\ returned' = Returns("OpenChromeCustomTab",
                            URL # "" /\ jni /\ openTabResult(URL, fallbackOk))
    /\ UNCHANGED <<gameQueue, request>>

\* UCPP_ABCT_Base::OpenChromeCustomTab(URL, ToolbarColor) on instance i.
\* jni: the JNI environment, the class and the method were found.
OpenChromeCustomTab(i, URL, userAgent, jni, fallbackOk, newOk, cap) ==
    /\ alive[i]
    /\ Pending < cap
    /\ IF URL = "" \/ ~jni
       THEN UNCHANGED <<javaVars, objVars>>
       ELSE /\ openTab(URL, userAgent, newOk)
            /\ IF openTabResult(URL, fallbackOk)
               THEN Called(i, OnCustomTabOpened(StateOf(i), i, URL))
               ELSE UNCHANGED objVars
    /\ returned' = Returns("OpenChromeCustomTab",
                            URL # "" /\ jni /\ openTabResult(URL, fallbackOk))
    /\ UNCHANGED <<gameQueue, request>>

\* ChromeCustomTabs.closeTab()
closeTab ==
    /\ uiQueue' = IF activityRef THEN Append(uiQueue, CloseTask) ELSE uiQueue
    /\ UNCHANGED <<activityRef, serviceConnection, customTabsClient, customTabsSession,
                   messageChannelReady, pendingOrigin, lastNavigatedUrl,
                   postMessageRetryCount, pendingRetryOrigin, timers, browserPackage,
                   browserCallback>>

\* UCPP_ABCT_Base::CloseChromeCustomTab() on instance i
CloseChromeCustomTab(i, jni, cap) ==
    /\ alive[i]
    /\ Pending < cap
    /\ IF ~jni
       THEN UNCHANGED <<javaVars, objVars>>
       ELSE /\ closeTab
            /\ Called(i, OnCustomTabClosed(StateOf(i)))
    /\ UNCHANGED <<gameQueue, request, returned>>

\* The main looper runs openInternal(...): the session is ensured and the URL
\* is launched; openTab passes no postMessage origin.
RunOpenInternal(newOk) ==
    /\ uiQueue # <<>>
    /\ Head(uiQueue).type = "openInternal"
    /\ LET es == ensureSession(serviceConnection, customTabsClient,
                               customTabsSession, newOk)
       IN /\ serviceConnection' = es.serviceConnection
          /\ customTabsSession' = es.customTabsSession
          /\ browserCallback' = (browserCallback \/ es.created)
    /\ uiQueue' = Tail(uiQueue)
    /\ UNCHANGED <<activityRef, customTabsClient, messageChannelReady, pendingOrigin,
                   lastNavigatedUrl, postMessageRetryCount, pendingRetryOrigin,
                   timers, browserPackage>>
    /\ UNCHANGED <<cppVars, gameQueue, request>>

\* The main looper runs the lambda of close(activity): the game activity is
\* brought to the front.
RunClose ==
    /\ uiQueue # <<>>
    /\ Head(uiQueue).type = "close"
    /\ uiQueue' = Tail(uiQueue)
    /\ UNCHANGED <<activityRef, serviceConnection, customTabsClient, customTabsSession,
                   messageChannelReady, pendingOrigin, lastNavigatedUrl,
                   postMessageRetryCount, pendingRetryOrigin, timers, browserPackage,
                   browserCallback>>
    /\ UNCHANGED <<cppVars, gameQueue, request>>

\* ---------------------------------------------------------------- initial state
\* The statics and the objects after construction.
Constructed ==
    /\ activityRef = FALSE
    /\ serviceConnection = FALSE
    /\ customTabsClient = FALSE
    /\ customTabsSession = FALSE
    /\ messageChannelReady = FALSE
    /\ pendingOrigin = Null
    /\ lastNavigatedUrl = ""
    /\ postMessageRetryCount = 0
    /\ pendingRetryOrigin = Null
    /\ uiQueue = <<>>
    /\ timers = <<>>
    /\ browserPackage \in BOOLEAN
    /\ browserCallback = FALSE
    /\ alive = [i \in Instances |-> TRUE]
    /\ bIsCustomTabOpen = [i \in Instances |-> FALSE]
    /\ CurrentURL = [i \in Instances |-> ""]
    /\ LastNavigationEvent = [i \in Instances |-> ""]
    /\ LastDeepLinkAction = [i \in Instances |-> ""]
    /\ LastDeepLinkParams = [i \in Instances |-> <<>>]
    /\ ActiveInstance = None
    /\ gameQueue = <<>>
    /\ observer = [target |-> "start", out |-> <<>>, seen |-> <<>>]
    /\ lastRegistryOp = [op |-> "none", inst |-> None]
    /\ request = [calls |-> 0, last |-> "none", accepted |-> FALSE,
                  exhausted |-> FALSE, ready |-> FALSE]

Init ==
    /\ Constructed
    /\ returned = [on |-> FALSE, op |-> "none", value |-> FALSE, given |-> <<>>]

\* The same start, with the calls of the host recorded.
InitRecording ==
    /\ Constructed
    /\ returned = [on |-> TRUE, op |-> "none", value |-> FALSE, given |-> <<>>]

\* ---------------------------------------------------------------- specifications
\* The channel: requests, attempts, retries and the callbacks that touch them.
NextChannel ==
    \/ \E activity \in BOOLEAN : SetActivity(activity)
    \/ OnActivityDestroyed
    \/ \E newOk \in BOOLEAN : OnCustomTabsServiceConnected(newOk)
    \/ OnServiceDisconnected
    \/ \E origin \in Origins \cup {""}, onUiThread, newOk, result \in BOOLEAN :
           requestPostMessageChannel(origin, onUiThread, newOk, result, MaxPending)
    \/ \E i \in 1..Len(timers) : TimerDue(i)
    \/ \E result \in BOOLEAN : RunChannelTask(result)
    \/ OnNavigationEvent(NAVIGATION_FINISHED, MaxPending, MaxChannelGame)
    \/ OnMessageChannelReady(MaxChannelGame)
    \/ RunGameTask

SpecChannel == Init /\ [][NextChannel]_vars

\* A burst of requests for one origin from the game thread, on a device with a
\* browser, while the main looper is busy.
NextBurst ==
    \/ SetActivity(TRUE)
    \/ OnCustomTabsServiceConnected(TRUE)
    \/ OnServiceDisconnected
    \/ \E result \in BOOLEAN :
           requestPostMessageChannel(OriginA, FALSE, TRUE, result, MaxBurst)
    \/ \E i \in 1..Len(timers) : TimerDue(i)
    \/ \E result \in BOOLEAN : RunChannelTask(result)

SpecBurst == Init /\ [][NextBurst]_vars

\* The main looper runs every message it holds, and every delay elapses.
LooperFairness ==
    /\ WF_vars(\E result \in BOOLEAN : RunChannelTask(result))
    /\ WF_vars(\E i \in 1..Len(timers) : TimerDue(i))

SpecBurstFair == SpecBurst /\ LooperFairness

\* ---------------------------------------------------------------- the native side
DeepLinkIntents ==
    {[null |-> FALSE, data |-> FALSE, scheme |-> Null, host |-> Null, query |-> <<>>],
     [null |-> FALSE, data |-> TRUE, scheme |-> "uewebtest", host |-> "jump",
      query |-> <<"h", "=", "1">>]}

\* The JNI entry point nativeOnTabClosed called: ChromeCustomTabs.java declares
\* it and never calls it, so only a caller outside the plugin's Java class does.
NativeOnTabClosed(gameCap) ==
    /\ Len(gameQueue) < gameCap
    /\ gameQueue' = Append(gameQueue, nativeOnTabClosed)
    /\ UNCHANGED <<javaVars, cppVars, request>>

\* Two UObjects on a device with or without a browser: the host opens and
\* closes tabs, the platform delivers events and a deep link, every JNI entry
\* point is called, the game thread runs the lambdas posted to it, the engine
\* collects an object.
NextNative ==
    \/ SetActivity(TRUE)
    \/ OnCustomTabsServiceConnected(TRUE)
    \/ \E i \in Instances, URL \in {"https://x", ""}, jni, fallbackOk \in BOOLEAN :
           OpenChromeCustomTab(i, URL, "", jni, fallbackOk, TRUE, MaxNativePending)
    \/ \E i \in Instances, jni \in BOOLEAN : CloseChromeCustomTab(i, jni, MaxNativePending)
    \/ RunOpenInternal(TRUE)
    \/ RunClose
    \/ OnNavigationEvent(NAVIGATION_STARTED, MaxNativePending, MaxGameQueue)
    \/ OnMessageChannelReady(MaxGameQueue)
    \/ \E intent \in DeepLinkIntents : handleDeepLink(intent, MaxGameQueue)
    \/ NativeOnTabClosed(MaxGameQueue)
    \/ RunGameTask
    \/ \E i \in Instances : DestroyInstance(i)

SpecNative == Init /\ [][NextNative]_vars

\* ---------------------------------------------------------------- the bridge
NavigationCodes == {1, 2, 5, 6, 7}
UserAgents == {"", "UA"}
Messages == {"m"}

\* One UObject and the browser: the host opens and closes the tab, the browser
\* calls CALLBACK with every navigation event, a ready channel and a message,
\* the game thread runs the lambdas posted to it.
NextBridge ==
    \/ SetActivity(TRUE)
    \/ OnCustomTabsServiceConnected(TRUE)
    \/ \E URL \in {"https://x", ""}, userAgent \in UserAgents,
          jni, fallbackOk \in BOOLEAN :
           OpenChromeCustomTab("i1", URL, userAgent, jni, fallbackOk, TRUE,
                               MaxNativePending)
    \/ \E jni \in BOOLEAN : CloseChromeCustomTab("i1", jni, MaxNativePending)
    \/ RunOpenInternal(TRUE)
    \/ RunClose
    \/ \E code \in NavigationCodes :
           OnNavigationEvent(code, MaxNativePending, MaxBridgeGame)
    \/ OnMessageChannelReady(MaxBridgeGame)
    \/ \E message \in Messages : OnPostMessage(message, MaxBridgeGame)
    \/ RunGameTask

SpecBridge == Init /\ [][NextBridge]_vars

\* ---------------------------------------------------------------- the calls of the host
\* CustomTabsService.RESULT_SUCCESS and the three RESULT_FAILURE_* codes
ResultCodes == {0, -1, -2, -3}

\* Two UObjects on a device with or without a browser, with what each call
\* returned recorded: the host opens and closes tabs while the activity comes
\* and goes, the service connects and the main looper runs what was posted.
NextHost ==
    \/ \E activity \in BOOLEAN : SetActivity(activity)
    \/ OnActivityDestroyed
    \/ \E newOk \in BOOLEAN : OnCustomTabsServiceConnected(newOk)
    \/ \E i \in Instances, URL \in {"https://x", ""}, jni, fallbackOk, newOk \in BOOLEAN :
           OpenChromeCustomTab(i, URL, "", jni, fallbackOk, newOk, MaxHostPending)
    \/ \E i \in Instances, jni \in BOOLEAN : CloseChromeCustomTab(i, jni, MaxHostPending)
    \/ \E newOk \in BOOLEAN : RunOpenInternal(newOk)
    \/ RunClose

SpecHost == InitRecording /\ [][NextHost]_vars

\* The Java class with what each call returned recorded: the host requests the
\* channel and sends messages while the activity, the service and the browser
\* come and go and the two threads run what was posted.
NextSend ==
    \/ \E activity \in BOOLEAN : SetActivity(activity)
    \/ \E newOk \in BOOLEAN : OnCustomTabsServiceConnected(newOk)
    \/ OnServiceDisconnected
    \/ \E origin \in {OriginA, ""}, onUiThread, newOk, result \in BOOLEAN :
           requestPostMessageChannel(origin, onUiThread, newOk, result, MaxSendPending)
    \/ \E i \in 1..Len(timers) : TimerDue(i)
    \/ \E result \in BOOLEAN : RunChannelTask(result)
    \/ OnMessageChannelReady(MaxSendGame)
    \/ RunGameTask
    \/ \E message \in Messages, resultCode \in ResultCodes :
           ExecuteJava(message, resultCode)

SpecSend == InitRecording /\ [][NextSend]_vars

\* ---------------------------------------------------------------- deep link parameters
\* The texts of values in a query: plain ones, and ones whose escapes decode
\* to a quote, a backslash, or both.
PlainValues == {<<>>, <<"1">>, <<"1", "2">>, <<"a">>, <<"1", "a">>}
EscapedValues ==
    {<<"%", "2", "2">>, <<"%", "5", "C">>,
     <<"%", "5", "C", "%", "5", "C">>, <<"%", "5", "C", "%", "2", "2">>,
     <<"a", "%", "2", "2">>, <<"1", "+", "2">>}
QueryValues == PlainValues \cup EscapedValues
ComponentValues == {<<"1">>, <<"1", "2">>, <<"a">>}

Pair(key, value) == key \o <<"=">> \o value

\* No query, one pair, two pairs, a flag before a pair, and the components
\* of a vector with and without z.
Queries ==
    {<<>>}
    \cup {Pair(<<"a">>, v) : v \in QueryValues}
    \cup {Pair(<<"a">>, v) \o <<"&">> \o Pair(<<"b">>, w) :
              v \in QueryValues, w \in QueryValues}
    \cup {<<"f", "&">> \o Pair(<<"a">>, v) : v \in PlainValues}
    \cup {Pair(<<"x">>, v) \o <<"&">> \o Pair(<<"y">>, w) : v, w \in ComponentValues}
    \cup {Pair(<<"x">>, u) \o <<"&">> \o Pair(<<"y">>, v) \o <<"&">> \o Pair(<<"z">>, w) :
              u \in ComponentValues, v \in ComponentValues, w \in ComponentValues}

Keys == {<<"a">>, <<"b">>, <<"x">>, <<"c">>, <<>>}

\* The deep link of this behaviour: a uewebtest URI with the query drawn at
\* the start.
GivenIntent ==
    [null |-> FALSE, data |-> TRUE, scheme |-> "uewebtest", host |-> "teleport",
     query |-> returned.given]

InitCodec ==
    /\ Constructed
    /\ \E query \in Queries :
           returned = [on |-> TRUE, op |-> "none", value |-> FALSE, given |-> query]

\* One instance opens a tab, the platform delivers the deep link, the game
\* thread hands it to the instance, and the host reads the parameters with
\* each helper.
NextCodec ==
    \/ SetActivity(TRUE)
    \/ \E fallbackOk \in BOOLEAN :
           OpenChromeCustomTab("i1", "https://x", "", TRUE, fallbackOk, TRUE,
                               MaxNativePending)
    \/ RunOpenInternal(TRUE)
    \/ handleDeepLink(GivenIntent, MaxGameQueue)
    \/ RunGameTask
    \/ \E i \in Instances, Key \in Keys : CallGetDeepLinkParameter(i, Key)
    \/ \E i \in Instances, Key \in Keys : CallGetDeepLinkParameterAsFloat(i, Key)
    \/ \E i \in Instances, Key \in Keys : CallGetDeepLinkParameterAsInt(i, Key)
    \/ \E i \in Instances : CallGetDeepLinkParameterAsVector(i)

SpecCodec == InitCodec /\ [][NextCodec]_vars

\* ---------------------------------------------------------------- the handler
HandlerEvents == {"NavigationStarted", "TabOpened", "TabClosed", "TabHidden"}
HandlerURLs == {"", "https://y"}

\* Two instances: the host opens and closes tabs, nativeOnTabClosed is
\* called, the game thread runs its lambdas, and HandleNavigationEvent is
\* called with each event and URL on each instance.
NextHandler ==
    \/ SetActivity(TRUE)
    \/ \E i \in Instances, jni, fallbackOk \in BOOLEAN :
           OpenChromeCustomTab(i, "https://x", "", jni, fallbackOk, TRUE,
                               MaxNativePending)
    \/ \E i \in Instances, jni \in BOOLEAN : CloseChromeCustomTab(i, jni, MaxNativePending)
    \/ RunOpenInternal(TRUE)
    \/ RunClose
    \/ NativeOnTabClosed(MaxGameQueue)
    \/ RunGameTask
    \/ \E i \in Instances, Event \in HandlerEvents, URL \in HandlerURLs :
           CallHandleNavigationEvent(i, Event, URL)

SpecHandler == Init /\ [][NextHandler]_vars

\* One UObject through the life of a tab and of its channel: the host opens
\* and closes the tab, requests the channel and sends, while the activity is
\* destroyed and set again, the service connects and disconnects and the
\* browser reports a ready channel.
NextSession ==
    \/ SetActivity(TRUE)
    \/ OnActivityDestroyed
    \/ OnCustomTabsServiceConnected(TRUE)
    \/ OnServiceDisconnected
    \/ OpenChromeCustomTab("i1", "https://x", "", TRUE, TRUE, TRUE, MaxSessionPending)
    \/ CloseChromeCustomTab("i1", TRUE, MaxSessionPending)
    \/ RunOpenInternal(TRUE)
    \/ RunClose
    \/ \E result \in BOOLEAN :
           requestPostMessageChannel(OriginA, FALSE, TRUE, result, MaxSessionPending)
    \/ \E i \in 1..Len(timers) : TimerDue(i)
    \/ \E result \in BOOLEAN : RunChannelTask(result)
    \/ OnMessageChannelReady(MaxSessionGame)
    \/ RunGameTask
    \/ \E message \in Messages, resultCode \in {RESULT_SUCCESS, -1} :
           ExecuteJava(message, resultCode)

SpecSession == InitRecording /\ [][NextSession]_vars

\* The intents the activity hands to handleDeepLink: none, one without data,
\* one whose Uri has no scheme, and uewebtest Uris with or without a host,
\* with no query, one pair, two pairs, and a value that is a lone percent sign
\* (the Uri ...?a=%25, whose getQuery() is a=%).
DeepLinkQueries ==
    {<<>>, Pair(<<"a">>, <<"1">>),
     Pair(<<"a">>, <<"1">>) \o <<"&">> \o Pair(<<"b">>, <<"1", "2">>),
     Pair(<<"a">>, <<"%">>)}
Intents ==
    {[null |-> TRUE, data |-> FALSE, scheme |-> Null, host |-> Null, query |-> <<>>],
     [null |-> FALSE, data |-> FALSE, scheme |-> Null, host |-> Null, query |-> <<>>],
     [null |-> FALSE, data |-> TRUE, scheme |-> Null, host |-> "teleport",
      query |-> Pair(<<"a">>, <<"1">>)]}
    \cup {[null |-> FALSE, data |-> TRUE, scheme |-> "uewebtest", host |-> host,
           query |-> query] : host \in {Null, "teleport"}, query \in DeepLinkQueries}

\* Two UObjects and the deep links of the platform: the host opens and closes
\* tabs, the activity hands each new intent to handleDeepLink, and the game
\* thread runs the lambdas posted to it.
NextDeepLink ==
    \/ SetActivity(TRUE)
    \/ \E i \in Instances :
           OpenChromeCustomTab(i, "https://x", "", TRUE, TRUE, TRUE, MaxDeepLinkPending)
    \/ \E i \in Instances : CloseChromeCustomTab(i, TRUE, MaxDeepLinkPending)
    \/ RunOpenInternal(TRUE)
    \/ RunClose
    \/ \E intent \in Intents : CallHandleDeepLink(intent, MaxDeepLinkGame)
    \/ RunGameTask

SpecDeepLink == InitRecording /\ [][NextDeepLink]_vars

\* The deep link the platform delivers in SpecPlatform.
TeleportIntent ==
    [null |-> FALSE, data |-> TRUE, scheme |-> "uewebtest", host |-> "teleport",
     query |-> Pair(<<"a">>, <<"1">>)]

\* One UObject and everything the platform can call: the host opens and
\* closes the tab; the browser calls CALLBACK with every navigation event, a
\* ready channel and a message; the activity hands a deep link to
\* handleDeepLink; the game thread runs the lambdas posted to it.
NextPlatform ==
    \/ SetActivity(TRUE)
    \/ OnCustomTabsServiceConnected(TRUE)
    \/ OpenChromeCustomTab("i1", "https://x", "", TRUE, TRUE, TRUE, MaxPlatformPending)
    \/ CloseChromeCustomTab("i1", TRUE, MaxPlatformPending)
    \/ RunOpenInternal(TRUE)
    \/ RunClose
    \/ \E code \in NavigationCodes :
           OnNavigationEvent(code, MaxPlatformPending, MaxPlatformGame)
    \/ OnMessageChannelReady(MaxPlatformGame)
    \/ \E message \in Messages : OnPostMessage(message, MaxPlatformGame)
    \/ handleDeepLink(TeleportIntent, MaxPlatformGame)
    \/ RunGameTask

SpecPlatform == Init /\ [][NextPlatform]_vars

\* The parts of a query: two pairs, a flag without '=' and a part with two
\* '='; a query is up to MaxParts of them with '&' between.
QueryParts ==
    {Pair(<<"a">>, <<"1">>), Pair(<<"b">>, <<"2">>), <<"f">>,
     <<"c", "=", "1", "=", "2">>}

RECURSIVE Join(_, _)
Join(parts, c) ==
    IF parts = <<>> THEN <<>>
    ELSE IF Len(parts) = 1 THEN parts[1]
    ELSE parts[1] \o <<c>> \o Join(Tail(parts), c)

QueryShapes ==
    {<<>>} \cup UNION {{Join(parts, "&") : parts \in [1..n -> QueryParts]} :
                         n \in 1..MaxParts}

InitQuery ==
    /\ Constructed
    /\ \E query \in QueryShapes :
           returned = [on |-> TRUE, op |-> "none", value |-> FALSE, given |-> query]

\* queryStringToJson on each query.
NextQuery == CallQueryStringToJson

SpecQuery == InitQuery /\ [][NextQuery]_vars

\* ---------------------------------------------------------------- steps
\* The main looper runs one of the two postDelayed lambdas.
RetryFires ==
    /\ uiQueue # <<>>
    /\ Head(uiQueue).type \in {"retry", "navRetry"}
    /\ uiQueue' = Tail(uiQueue)

\* An attempt takes the branch that gives up ("failed after N attempts").
Exhausts ==
    /\ postMessageRetryCount' = postMessageRetryCount + 1
    /\ request'.last = "exhausted"

\* CALLBACK.onMessageChannelReady posts its lambda.
CallbackReady == gameQueue' = Append(gameQueue, nativeOnMessageChannelReady)

\* The game thread runs the first lambda posted to it.
GameTaskRuns ==
    /\ gameQueue # <<>>
    /\ gameQueue' = Tail(gameQueue)

\* The lambda the game thread runs hands a navigation event to instance i.
HandlesNav(i, name) ==
    /\ GameTaskRuns
    /\ GetActiveInstance = i
    /\ Head(gameQueue).kind = "nav"
    /\ Head(gameQueue).name = name

\* What instance i holds.
InstanceFields(i) ==
    <<bIsCustomTabOpen[i], CurrentURL[i], LastNavigationEvent[i],
      LastDeepLinkAction[i], LastDeepLinkParams[i]>>

\* bIsCustomTabOpen of instance i goes from true to false.
Closes(i) == bIsCustomTabOpen[i] /\ ~bIsCustomTabOpen'[i]

\* A callback on the browser's thread hands its lambdas to AsyncTask: the
\* step before the hop to the game thread.
PostsToGameThread ==
    /\ Len(gameQueue') > Len(gameQueue)
    /\ SubSeq(gameQueue', 1, Len(gameQueue)) = gameQueue

\* ---------------------------------------------------------------- properties
\* C1: GetActiveInstance returns the instance registered last when no
\* unregister followed it and the instance still exists (A then B yields B),
\* and none after an unregister or once the registered instance is destroyed.
C1_RegistryReturnsLastRegistered ==
    GetActiveInstance = IF /\ lastRegistryOp.op = "register"
                           /\ alive[lastRegistryOp.inst]
                        THEN lastRegistryOp.inst
                        ELSE None

C1_RegisteredAfterAnother ==
    /\ lastRegistryOp = [op |-> "register", inst |-> "i2"]
    /\ bIsCustomTabOpen["i1"]
    /\ alive["i1"]
    /\ GetActiveInstance = "i2"

\* C2: a retry posted for one origin that fires after a request for another
\* origin replaced it makes no transport request and leaves the retry count.
C2_SupersededRetryIsNoOp ==
    [][(/\ RetryFires
        /\ pendingRetryOrigin # Null
        /\ Head(uiQueue).origin # pendingRetryOrigin)
       => /\ postMessageRetryCount' = postMessageRetryCount
          /\ request'.calls = request.calls]_vars

\* C3: once a request whose attempts were all rejected is exhausted, with no
\* ready channel and no newer request, exactly MAX_POSTMESSAGE_RETRIES
\* transport requests were made and the pending retry origin is cleared.
C3_ExactlyFiveAttempts ==
    (request.exhausted /\ ~request.accepted /\ ~request.ready)
    => /\ request.calls = MAX_POSTMESSAGE_RETRIES
       /\ pendingRetryOrigin = Null

\* C4: the attempt that gives up clears the pending retry origin and tells
\* nobody: nothing is posted to the game thread and no observer is notified.
C4_ExhaustionOnlyLogged ==
    [][Exhausts => /\ pendingRetryOrigin' = Null
                   /\ gameQueue' = gameQueue
                   /\ observer' = observer]_vars

C4_Exhausted ==
    /\ request.last = "exhausted"
    /\ postMessageRetryCount = MAX_POSTMESSAGE_RETRIES
    /\ pendingRetryOrigin = Null

\* C4 as the specification states it: the attempt that gives up reports the
\* failure towards the observer.
C4_ExhaustionReported ==
    [][Exhausts => gameQueue' # gameQueue]_vars

\* C5: onMessageChannelReady sets messageChannelReady and clears the pending
\* retry origin; until a newer request the origin stays cleared, and a
\* postDelayed lambda that fires makes no transport request, leaves the
\* retry count and posts no further retry.
C5_ReadyCancelsRetries ==
    /\ [][CallbackReady => messageChannelReady' /\ pendingRetryOrigin' = Null]_vars
    /\ [](request.ready => pendingRetryOrigin = Null)
    /\ [][(RetryFires /\ request.ready)
          => /\ postMessageRetryCount' = postMessageRetryCount
             /\ request'.calls = request.calls
             /\ timers' = timers]_vars

C5_RetrySkippedAfterReady ==
    /\ request.ready
    /\ request.last = "skipped"
    /\ request.calls \in 1..(MAX_POSTMESSAGE_RETRIES - 1)
    /\ ~request.accepted
    /\ ~request.exhausted

\* C6: the retry count never exceeds MAX_POSTMESSAGE_RETRIES, and no more
\* than that many transport requests are made between one request and the next.
C6_AttemptsBounded ==
    /\ postMessageRetryCount <= MAX_POSTMESSAGE_RETRIES
    /\ request.calls <= MAX_POSTMESSAGE_RETRIES

\* C7: when the main looper runs every message and every delay elapses, a
\* request whose pending retry origin is set and for which an attempt has run
\* eventually has the origin cleared, or a newer request replaces it.
C7_RequestingEnds ==
    (pendingRetryOrigin # Null /\ request.last # "none")
    ~> (pendingRetryOrigin = Null \/ request.last = "none")

\* C8: handling TabHidden or TabShown on an instance with an open tab leaves
\* the tab open and the registry as it was, and notifies that one event; no
\* TabClosed is ever posted by the callbacks.
C8_HiddenAndShownKeepOpen ==
    /\ [][\A name \in {"TabHidden", "TabShown"} :
            (HandlesNav("i1", name) /\ bIsCustomTabOpen["i1"])
            => /\ bIsCustomTabOpen'["i1"]
               /\ ActiveInstance' = ActiveInstance
               /\ LastNavigationEvent'["i1"] = name
               /\ Len(observer'.out) = 1
               /\ observer'.out[1].name = name]_vars
    /\ [](\A k \in 1..Len(gameQueue) : gameQueue[k] # nativeOnTabClosed)

C8_HiddenWhileOpen ==
    /\ bIsCustomTabOpen["i1"]
    /\ GetActiveInstance = "i1"
    /\ LastNavigationEvent["i1"] = "TabHidden"
    /\ observer.target = "i1"
    /\ observer.out # <<>>
    /\ observer.out[1].name = "TabHidden"

\* C9: bIsCustomTabOpen of an instance goes from true to false only when the
\* instance handles TabClosed or CloseChromeCustomTab is called on it.
C9_ClosedByTabClosedOrClose ==
    [][\A i \in Instances :
         Closes(i) => \/ HandlesNav(i, "TabClosed")
                      \/ \E jni \in BOOLEAN :
                             CloseChromeCustomTab(i, jni, MaxNativePending)]_vars

C9_ClosedByTabClosed ==
    /\ ~bIsCustomTabOpen["i1"]
    /\ LastNavigationEvent["i1"] = "TabClosed"
    /\ observer.target = "i1"
    /\ observer.out # <<>>
    /\ observer.out[1].name = "TabClosed"

\* C9 as the specification states it: bIsCustomTabOpen goes from true to
\* false only when the instance handles TabClosed.
C9_OnlyTabClosedCloses ==
    [][\A i \in Instances : Closes(i) => HandlesNav(i, "TabClosed")]_vars

\* C10: a lambda run on the game thread acts on the instance that is active
\* when it runs and on no other; without an active instance it changes no
\* instance and no registry state and notifies nobody; a lambda that ran has
\* left the queue and is not put back.
C10_EventGoesToActiveOrNowhere ==
    /\ [][GameTaskRuns
          => LET t == GetActiveInstance
             IN /\ \A i \in Instances \ {t} : InstanceFields(i)' = InstanceFields(i)
                /\ observer'.target = t
                /\ \A k \in 1..Len(observer'.out) : observer'.out[k].inst = t
                /\ (t = None) => /\ observer'.out = <<>>
                                 /\ ActiveInstance' = ActiveInstance
                                 /\ lastRegistryOp' = lastRegistryOp
                /\ (t # None) => observer'.out # <<>>]_vars
    /\ [][\/ GameTaskRuns
          \/ /\ Len(gameQueue') >= Len(gameQueue)
             /\ SubSeq(gameQueue', 1, Len(gameQueue)) = gameQueue]_vars

C10_DroppedWithoutActive ==
    /\ observer.target = None
    /\ lastRegistryOp.op # "none"
    /\ \E i \in Instances : alive[i] /\ LastNavigationEvent[i] # ""

\* C11: the game thread handles the events in the order the callbacks posted
\* them: a callback only adds lambdas behind those already posted, and the
\* game thread only removes the oldest one, which the active instance then
\* handles once, as that event.
C11_EventsHandledInOrder ==
    /\ [][Len(gameQueue') < Len(gameQueue)
          => /\ gameQueue' = Tail(gameQueue)
             /\ (Head(gameQueue).kind = "nav" /\ GetActiveInstance = "i1")
                => /\ LastNavigationEvent'["i1"] = Head(gameQueue).name
                   /\ observer'.out = <<[inst |-> "i1", kind |-> "nav",
                                         name |-> Head(gameQueue).name,
                                         arg |-> Head(gameQueue).arg]>>]_vars
    /\ [][Len(gameQueue') >= Len(gameQueue)
          => SubSeq(gameQueue', 1, Len(gameQueue)) = gameQueue]_vars

C11_ShownHandledBeforeOpened ==
    /\ observer.target = "i1"
    /\ observer.out # <<>>
    /\ observer.out[1].name = "TabShown"
    /\ gameQueue # <<>>
    /\ Head(gameQueue) = nativeOnTabOpened

\* The channel state a request sets.
ChannelState ==
    <<pendingOrigin, pendingRetryOrigin, messageChannelReady, postMessageRetryCount,
      uiQueue, timers, request>>

\* C12: executeJava returns false without a call of postMessage when there is
\* no session or the channel is not ready; otherwise it calls postMessage once
\* and returns true exactly when the result code is RESULT_SUCCESS; it queues
\* nothing.
C12_SendFailsFastOrForwardsOnce ==
    [][\A message \in Messages, resultCode \in ResultCodes :
         ExecuteJava(message, resultCode)
         => /\ IF ~customTabsSession \/ ~messageChannelReady
               THEN returned'.value = [result |-> FALSE, posted |-> 0]
               ELSE returned'.value = [result |-> resultCode = RESULT_SUCCESS,
                                       posted |-> 1]
            /\ UNCHANGED <<uiQueue, timers, gameQueue>>]_vars

C12_SentAndRefused ==
    /\ returned.op = "executeJava"
    /\ returned.value = [result |-> FALSE, posted |-> 1]
    /\ customTabsSession
    /\ messageChannelReady

\* C13: requestPostMessageChannel with an empty origin, without an activity,
\* or when there is no session after ensureSession (none existed and none
\* could be created) returns false and leaves the pending origins,
\* messageChannelReady, the retry count and the main looper as they were.
C13_RefusedRequestChangesNothing ==
    [][\A origin \in {OriginA, ""}, onUiThread, newOk, result \in BOOLEAN :
         (/\ requestPostMessageChannel(origin, onUiThread, newOk, result,
                                       MaxSendPending)
          /\ \/ origin = ""
             \/ ~activityRef
             \/ ~ensureSession(serviceConnection, customTabsClient,
                               customTabsSession, newOk).customTabsSession)
         => /\ returned'.value = FALSE
            /\ UNCHANGED ChannelState]_vars

C13_RefusedWhilePending ==
    /\ returned.op = "requestPostMessageChannel"
    /\ returned.value = FALSE
    /\ pendingRetryOrigin # Null
    /\ postMessageRetryCount > 0
    /\ timers # <<>>

\* C13 as the specification states it: the request is refused and changes
\* nothing whenever the origin is empty or no session exists when it is made.
C13_RefusedWithoutSession ==
    [][\A origin \in {OriginA, ""}, onUiThread, newOk, result \in BOOLEAN :
         (/\ requestPostMessageChannel(origin, onUiThread, newOk, result,
                                       MaxSendPending)
          /\ (origin = "" \/ ~customTabsSession))
         => /\ returned'.value = FALSE
            /\ UNCHANGED ChannelState]_vars

\* C14: an OpenChromeCustomTab that returns false (empty URL, no JNI
\* environment, or openTab returning false) leaves bIsCustomTabOpen and
\* CurrentURL of every instance and the active instance as they were.
C14_FailedOpenChangesNothing ==
    [][\A i \in Instances, URL \in {"https://x", ""}, jni, fallbackOk, newOk \in BOOLEAN :
         (/\ OpenChromeCustomTab(i, URL, "", jni, fallbackOk, newOk, MaxHostPending)
          /\ returned'.value = FALSE)
         => UNCHANGED <<bIsCustomTabOpen, CurrentURL, ActiveInstance>>]_vars

C14_FailedOpenWhileOpen ==
    /\ returned.op = "OpenChromeCustomTab"
    /\ returned.value = FALSE
    /\ bIsCustomTabOpen["i1"]
    /\ CurrentURL["i1"] = "https://x"
    /\ ActiveInstance = "i1"
    /\ ~bIsCustomTabOpen["i2"]

\* C15: without a Custom Tabs browser package, OpenChromeCustomTab with an
\* activity, a JNI environment and a non-empty URL takes the ACTION_VIEW
\* fallback and posts no openInternal: it returns true when the launch succeeds,
\* and the instance is then open with CurrentURL = URL and is the active
\* instance; it returns false and changes no instance when the launch fails.
C15_FallbackResultIsLaunchResult ==
    [][\A i \in Instances, fallbackOk, newOk \in BOOLEAN :
         (/\ OpenChromeCustomTab(i, "https://x", "", TRUE, fallbackOk, newOk,
                                 MaxHostPending)
          /\ activityRef
          /\ ~browserPackage)
         => /\ returned'.value = fallbackOk
            /\ UNCHANGED javaVars
            /\ IF fallbackOk
               THEN /\ bIsCustomTabOpen'[i]
                    /\ CurrentURL'[i] = "https://x"
                    /\ ActiveInstance' = i
               ELSE UNCHANGED objVars]_vars

C15_OpenedByFallback ==
    /\ ~browserPackage
    /\ activityRef
    /\ returned.op = "OpenChromeCustomTab"
    /\ returned.value = TRUE
    /\ bIsCustomTabOpen["i2"]
    /\ CurrentURL["i2"] = "https://x"
    /\ ActiveInstance = "i2"
    /\ uiQueue = <<>>

PartsOf(query) == SplitAll(query, "&")

\* A query of key=value pairs whose escapes are complete.
IsKeyValuePairs(query) ==
    /\ query # <<>>
    /\ \A n \in 1..Len(PartsOf(query)) :
           /\ IndexOf(PartsOf(query)[n], "=") > 1
           /\ URLDecode(Split2(PartsOf(query)[n], "=")[2]).ok

\* The key and the decoded value of each pair, in the order of the query.
DecodedPairs(query) ==
    [n \in 1..Len(PartsOf(query)) |->
        [key |-> Split2(PartsOf(query)[n], "=")[1],
         value |-> URLDecode(Split2(PartsOf(query)[n], "=")[2]).value]]

\* A text that is a number: a sign or none, then digits only.
IsNumeric(s) ==
    LET t == IF s # <<>> /\ s[1] \in {"-", "+"} THEN Tail(s) ELSE s
    IN t # <<>> /\ \A n \in 1..Len(t) : IsDigit(t[n])

\* Key is a field of the text json and its value is a number.
NumericField(json, Key) ==
    /\ json # <<>>
    /\ Deserialize(json).ok
    /\ HasField(Deserialize(json).fields, Key)
    /\ IsNumeric(GetStringField(Deserialize(json).fields, Key))

\* C17: the JSON text handleDeepLink posts for no query is {}, and for a
\* query of key=value pairs it is an object with one string field per pair, in
\* the order of the pairs, each with the key and the decoded value of its pair.
C17_QueryEncodedAsFields ==
    \A n \in 1..Len(gameQueue) :
        gameQueue[n].kind = "deepLink"
        => /\ returned.given = <<>> => gameQueue[n].arg = <<"{", "}">>
           /\ IsKeyValuePairs(returned.given)
              => /\ Deserialize(gameQueue[n].arg).ok
                 /\ Deserialize(gameQueue[n].arg).fields = DecodedPairs(returned.given)

\* C18: GetDeepLinkParameter on the text queryStringToJson made of a query of
\* key=value pairs, for a key of the query, returns true with the decoded
\* value of that key.
C18_ExtractReturnsDecodedValue ==
    (/\ returned.op = "GetDeepLinkParameter"
     /\ IsKeyValuePairs(returned.given)
     /\ returned.value.json = queryStringToJson(returned.given).value)
    => \A n \in 1..Len(DecodedPairs(returned.given)) :
           DecodedPairs(returned.given)[n].key = returned.value.key
           => /\ returned.value.result
              /\ returned.value.out = DecodedPairs(returned.given)[n].value

\* C19: GetDeepLinkParameterAsVector returns true exactly when x, y and z
\* are fields of the text and the value of each is a number.
C19_VectorIffAllNumeric ==
    returned.op = "GetDeepLinkParameterAsVector"
    => (returned.value.result
        <=> /\ NumericField(returned.value.json, <<"x">>)
            /\ NumericField(returned.value.json, <<"y">>)
            /\ NumericField(returned.value.json, <<"z">>))

\* C20: GetDeepLinkParameterAsFloat and GetDeepLinkParameterAsInt return true
\* exactly when the key is a field whose value is a number; for a field whose
\* value is no number they return false with the value 0.
C20_NonNumericReportsFailure ==
    returned.op \in {"GetDeepLinkParameterAsFloat", "GetDeepLinkParameterAsInt"}
    => /\ returned.value.result
          <=> NumericField(returned.value.json, returned.value.key)
       /\ ~returned.value.result => returned.value.out = 0

\* C21: HandleNavigationEvent with TabOpened or NavigationStarted on an
\* instance whose bIsCustomTabOpen is false sets it to true and sets CurrentURL
\* to the URL of the event.
C21_OpenedByTabOpenedOrStarted ==
    [][\A i \in Instances, Event \in {"TabOpened", "NavigationStarted"},
          URL \in HandlerURLs :
         (CallHandleNavigationEvent(i, Event, URL) /\ ~bIsCustomTabOpen[i])
         => /\ bIsCustomTabOpen'[i]
            /\ CurrentURL'[i] = URL]_vars

\* C22: HandleNavigationEvent with TabClosed, called with any URL or run by
\* the lambda of nativeOnTabClosed, leaves the instance with bIsCustomTabOpen
\* false and CurrentURL empty, and the registry without an active instance.
C22_TabClosedClosesAndUnregisters ==
    [][\A i \in Instances :
         (\/ \E URL \in HandlerURLs : CallHandleNavigationEvent(i, "TabClosed", URL)
          \/ HandlesNav(i, "TabClosed"))
         => /\ ~bIsCustomTabOpen'[i]
            /\ CurrentURL'[i] = ""
            /\ ActiveInstance' = None
            /\ LastNavigationEvent'[i] = "TabClosed"]_vars

C22_ClosedByEventWithURL ==
    /\ observer.target = "i1"
    /\ observer.out = <<[inst |-> "i1", kind |-> "nav", name |-> "TabClosed",
                         arg |-> "https://y"]>>
    /\ LastNavigationEvent["i1"] = "TabClosed"
    /\ ~bIsCustomTabOpen["i1"]
    /\ CurrentURL["i1"] = ""
    /\ ActiveInstance = None
    /\ lastRegistryOp.op = "unregister"
    /\ bIsCustomTabOpen["i2"]

\* C23: every close, by CloseChromeCustomTab with a JNI environment or by a
\* TabClosed handled, ends with UnregisterActiveInstance, after which
\* GetActiveInstance returns no instance: whichever instance closes, whichever
\* instance was registered, and also when none was.
C23_UnregisterClearsRegistry ==
    [][\A i \in Instances :
         (\/ CloseChromeCustomTab(i, TRUE, MaxNativePending)
          \/ \E URL \in HandlerURLs : CallHandleNavigationEvent(i, "TabClosed", URL)
          \/ HandlesNav(i, "TabClosed"))
         => /\ ActiveInstance' = None
            /\ GetActiveInstance' = None
            /\ lastRegistryOp' = [op |-> "unregister", inst |-> None]]_vars

C23_OtherInstanceLeftOpen ==
    /\ lastRegistryOp.op = "unregister"
    /\ ActiveInstance = None
    /\ observer.target = "start"
    /\ ~bIsCustomTabOpen["i1"]
    /\ bIsCustomTabOpen["i2"]
    /\ CurrentURL["i2"] = "https://x"

\* C24: every navigation event handled by an instance is broadcast once to
\* OnNavigationEvent of that instance with the event and the URL it was handled
\* with, and the receiver sees the instance and the registry as the handler
\* leaves them; for TabClosed it sees the tab closed and no active instance.
C24_BroadcastOnceAfterUpdate ==
    [][\A i \in Instances, Event \in HandlerEvents, URL \in HandlerURLs :
         (/\ LastNavigationEvent'[i] = Event
          /\ \/ CallHandleNavigationEvent(i, Event, URL)
             \/ /\ HandlesNav(i, Event)
                /\ Head(gameQueue).arg = URL)
         => /\ observer'.target = i
            /\ observer'.out = <<[inst |-> i, kind |-> "nav", name |-> Event,
                                  arg |-> URL]>>
            /\ observer'.seen = <<[open |-> bIsCustomTabOpen'[i],
                                   url |-> CurrentURL'[i],
                                   active |-> ActiveInstance']>>
            /\ Event = "TabClosed"
               => observer'.seen = <<[open |-> FALSE, url |-> "",
                                      active |-> None]>>]_vars

C24_ClosedSeenByReceiver ==
    /\ observer.target = "i2"
    /\ observer.out = <<[inst |-> "i2", kind |-> "nav", name |-> "TabClosed",
                         arg |-> ""]>>
    /\ observer.seen = <<[open |-> FALSE, url |-> "", active |-> None]>>
    /\ gameQueue = <<>>
    /\ lastRegistryOp.op = "unregister"

\* C25: requestPostMessageChannel with an activity, a non-empty origin and a
\* session returns true, stores the origin and clears messageChannelReady, and
\* issues one first attempt for the origin with the count reset: posted to the
\* main looper with postMessageRetryCount = 0 until it runs, or, for a caller
\* on the UI thread, run at once as attempt 1.
C25_RequestResetsAndAttemptsOnce ==
    [][\A origin \in {OriginA}, onUiThread, newOk, result \in BOOLEAN :
         (/\ requestPostMessageChannel(origin, onUiThread, newOk, result,
                                       MaxSendPending)
          /\ activityRef
          /\ customTabsSession)
         => /\ returned'.value = TRUE
            /\ pendingOrigin' = origin
            /\ messageChannelReady' = FALSE
            /\ IF onUiThread
               THEN /\ postMessageRetryCount' = 1
                    /\ request'.calls = 1
                    /\ uiQueue' = uiQueue
               ELSE /\ postMessageRetryCount' = 0
                    /\ pendingRetryOrigin' = origin
                    /\ request'.calls = 0
                    /\ uiQueue' = Append(uiQueue, AttemptTask(origin))
                    /\ timers' = timers]_vars

C25_ResetWhileRetryPending ==
    /\ returned.op = "requestPostMessageChannel"
    /\ returned.value = TRUE
    /\ postMessageRetryCount = 0
    /\ pendingOrigin = OriginA
    /\ ~messageChannelReady
    /\ uiQueue = <<AttemptTask(OriginA)>>
    /\ timers = <<RetryTask(OriginA)>>
    /\ request.calls = 0

\* C26: messageChannelReady becomes true only in CALLBACK.onMessageChannelReady;
\* an attempt the transport accepts leaves it as it is, and executeJava
\* returns false as long as it is false.
C26_ReadyOnlyByCallback ==
    /\ [][(~messageChannelReady /\ messageChannelReady') => CallbackReady]_vars
    /\ [][(request'.last = "accepted" /\ ~CallbackReady)
          => (messageChannelReady' => messageChannelReady)]_vars
    /\ [][\A message \in Messages, resultCode \in ResultCodes :
             (ExecuteJava(message, resultCode) /\ ~messageChannelReady)
             => returned'.value.result = FALSE]_vars

C26_AcceptedAndNotReady ==
    /\ request.last = "accepted"
    /\ request.accepted
    /\ ~request.ready
    /\ ~messageChannelReady
    /\ customTabsSession
    /\ pendingRetryOrigin = Null
    /\ returned.op = "executeJava"
    /\ returned.value = [result |-> FALSE, posted |-> 0]

\* C27: once the current request is exhausted, no step makes another transport
\* request for a channel (no scheduled retry, no retry after
\* NavigationFinished, no other attempt) until requestPostMessageChannel is
\* called again.
C27_AbandonedUntilFreshRequest ==
    [][(request.exhausted /\ request'.exhausted)
       => request'.calls = request.calls]_vars

\* C28: after onCustomTabsServiceConnected, onServiceDisconnected and
\* unbindCustomTabs, messageChannelReady is false, and executeJava returns
\* false without posting for as long as it stays false.
C28_ConnectionChangeClearsReady ==
    /\ [][((\E newOk \in BOOLEAN : OnCustomTabsServiceConnected(newOk))
           \/ OnServiceDisconnected
           \/ OnActivityDestroyed)
          => ~messageChannelReady']_vars
    /\ [][\A message \in Messages, resultCode \in ResultCodes :
             (ExecuteJava(message, resultCode) /\ request.ready
              /\ ~messageChannelReady)
             => returned'.value = [result |-> FALSE, posted |-> 0]]_vars

\* The channel of this request was ready, the service reconnected with a new
\* session, and the send made since was refused.
C28_RefusedAfterReconnect ==
    /\ bIsCustomTabOpen["i1"]
    /\ request.ready
    /\ customTabsClient
    /\ customTabsSession
    /\ ~messageChannelReady
    /\ returned.op = "executeJava"
    /\ returned.value = [result |-> FALSE, posted |-> 0]

\* C29: after CloseChromeCustomTab has called closeTab, and after the main
\* looper has run the lambda of close, messageChannelReady is false and no
\* retry origin is pending.
C29_CloseResetsChannel ==
    [][(CloseChromeCustomTab("i1", TRUE, MaxSessionPending) \/ RunClose)
       => /\ ~messageChannelReady'
          /\ pendingRetryOrigin' = Null]_vars

\* C30: a callback of the browser, up to the hop to the game thread, writes
\* neither the fields of a UObject (bIsCustomTabOpen, CurrentURL, the last
\* event, the last deep link) nor the channel and retry statics
\* (messageChannelReady, pendingOrigin, pendingRetryOrigin,
\* postMessageRetryCount).
C30_CallbacksWriteNothingBeforeHop ==
    [][PostsToGameThread
       => /\ \A i \in Instances : InstanceFields(i)' = InstanceFields(i)
          /\ messageChannelReady' = messageChannelReady
          /\ pendingOrigin' = pendingOrigin
          /\ pendingRetryOrigin' = pendingRetryOrigin
          /\ postMessageRetryCount' = postMessageRetryCount]_vars

\* C31: handleDeepLink with an intent whose Uri and scheme are not null
\* returns true and posts exactly one lambda, with the host (the empty string
\* for none) and the text queryStringToJson makes of the query; with a null
\* intent, null data or a null scheme it returns false and posts nothing. The
\* game thread hands the lambda to the active instance, which stores the two
\* values and broadcasts them once, with bIsCustomTabOpen, CurrentURL and the
\* registry as they were.
C31_DeepLinkNotifiedOnce ==
    /\ [][\A intent \in Intents :
             CallHandleDeepLink(intent, MaxDeepLinkGame)
             => IF intent.null \/ ~intent.data \/ intent.scheme = Null
                THEN /\ returned'.value.result = FALSE
                     /\ ~returned'.value.thrown
                     /\ gameQueue' = gameQueue
                ELSE /\ returned'.value.result = TRUE
                     /\ ~returned'.value.thrown
                     /\ gameQueue' = Append(gameQueue,
                            [kind |-> "deepLink",
                             name |-> IF intent.host = Null THEN "" ELSE intent.host,
                             arg |-> queryStringToJson(intent.query).value])]_vars
    /\ [][\A i \in Instances :
             (GameTaskRuns /\ Head(gameQueue).kind = "deepLink"
              /\ GetActiveInstance = i)
             => /\ LastDeepLinkAction'[i] = Head(gameQueue).name
                /\ LastDeepLinkParams'[i] = Head(gameQueue).arg
                /\ observer'.out = <<[inst |-> i, kind |-> "deepLink",
                                      name |-> Head(gameQueue).name,
                                      arg |-> Head(gameQueue).arg]>>
                /\ bIsCustomTabOpen' = bIsCustomTabOpen
                /\ CurrentURL' = CurrentURL
                /\ ActiveInstance' = ActiveInstance]_vars

\* The number of characters c in s.
CountOf(s, c) == Cardinality({k \in 1..Len(s) : s[k] = c})

\* The parts of the query with exactly one '=', in order.
WellFormedPairs(query) ==
    SelectSeq(PartsOf(query), LAMBDA part : CountOf(part, "=") = 1)

\* The field "key":"value" of each part, with a comma between two fields.
RECURSIVE FieldsOf(_)
FieldsOf(pairs) ==
    IF pairs = <<>> THEN <<>>
    ELSE <<"\"">> \o Split2(pairs[1], "=")[1] \o <<"\"", ":", "\"">>
         \o URLDecode(Split2(pairs[1], "=")[2]).value \o <<"\"">>
         \o (IF Len(pairs) > 1 THEN <<",">> ELSE <<>>)
         \o FieldsOf(Tail(pairs))

\* C32: the text queryStringToJson returns holds one field for each part of
\* the query with exactly one '=' and none for the other parts, with one comma
\* between two fields and none before the first or after the last, wherever
\* the parts without a field stand.
C32_SkippedPairsLeaveObjectWellFormed ==
    returned.op = "queryStringToJson"
    => returned.value.json
       = <<"{">> \o FieldsOf(WellFormedPairs(returned.given)) \o <<"}">>

\* C33: the instance GetActiveInstance returns, if any, has bIsCustomTabOpen
\* true; a step that puts an instance in the registry leaves that instance
\* open, and a step that takes bIsCustomTabOpen of any instance from true to
\* false leaves the registry empty.
C33_ActiveInstanceIsOpen ==
    /\ [](GetActiveInstance # None => bIsCustomTabOpen[GetActiveInstance])
    /\ [][(ActiveInstance' # ActiveInstance /\ ActiveInstance' # None)
          => bIsCustomTabOpen'[ActiveInstance']]_vars
    /\ [][\A i \in Instances : Closes(i) => ActiveInstance' = None]_vars

\* The tab of i2, registered last, was closed and the registry is empty,
\* while the tab of i1 is still open.
C33_OpenButNotActive ==
    /\ lastRegistryOp.op = "unregister"
    /\ ActiveInstance = None
    /\ bIsCustomTabOpen["i1"]
    /\ ~bIsCustomTabOpen["i2"]
    /\ alive["i1"] /\ alive["i2"]

C35_ShownThenOpened ==
    /\ [][OnNavigationEvent(TAB_SHOWN, MaxPlatformPending, MaxPlatformGame)
          => gameQueue' = gameQueue
                 \o <<[kind |-> "nav", name |-> "TabShown", arg |-> lastNavigatedUrl],
                      [kind |-> "nav", name |-> "TabOpened", arg |-> ""]>>]_vars
    /\ [][(GameTaskRuns /\ Head(gameQueue).name = "TabShown")
          => /\ gameQueue' # <<>>
             /\ Head(gameQueue') = [kind |-> "nav", name |-> "TabOpened", arg |-> ""]]_vars
    /\ [](\A k \in 2..Len(gameQueue) :
              gameQueue[k].name = "TabOpened" => gameQueue[k - 1].name = "TabShown")
    /\ [][(HandlesNav("i1", "TabOpened") /\ bIsCustomTabOpen["i1"])
          => /\ bIsCustomTabOpen'["i1"]
             /\ CurrentURL'["i1"] = CurrentURL["i1"]
             /\ observer'.out = <<[inst |-> "i1", kind |-> "nav",
                                   name |-> "TabOpened", arg |-> ""]>>]_vars

\* The instance, its tab open, has handled the TabOpened that followed a
\* TabShown: it still holds the URL it opened.
C35_OpenedHandledAfterShown ==
    /\ bIsCustomTabOpen["i1"]
    /\ CurrentURL["i1"] = "https://x"
    /\ LastNavigationEvent["i1"] = "TabOpened"
    /\ observer.out = <<[inst |-> "i1", kind |-> "nav", name |-> "TabOpened",
                         arg |-> ""]>>
    /\ observer.seen = <<[open |-> TRUE, url |-> "https://x", active |-> "i1"]>>

\* C36: whenever messageChannelReady is true there is a session; a step that
\* sets customTabsSession to null leaves messageChannelReady false, and
\* messageChannelReady becomes true only in CALLBACK.onMessageChannelReady,
\* called while there is a session.
C36_ReadyImpliesSession ==
    /\ [](messageChannelReady => customTabsSession)
    /\ [][(customTabsSession /\ ~customTabsSession') => ~messageChannelReady']_vars
    /\ [][(~messageChannelReady /\ messageChannelReady')
          => (CallbackReady /\ customTabsSession)]_vars

====
